---- MODULE Spec2Model ----
(***************************************************************************)
(* Aurelia: the journal-driven entity of modules/aurelia.                   *)
(*                                                                         *)
(* Numbers.  The text analyser works on exact rationals [n, d] (lexicon    *)
(* weights are tenths).  The entity's scalars are fixed-point integers in  *)
(* units of 1/ONE, every product rounded to the nearest unit.  IEEE-754    *)
(* rounding of the JavaScript doubles is not modelled.                     *)
(***************************************************************************)
EXTENDS Integers, Sequences, FiniteSets, TLC

VARIABLES
    text,        \* analyzeText: the argument under analysis
    scan,        \* analyzeText: the loop's locals (tokens, index, sums, negateNext)
    signals,     \* analyzeText: the value returned (NoSignals while scanning)
    aurelia,       \* world.js: the module's entity, Null before initWorld
    activeUserId,  \* world.js: the user the entity is saved under
    localStorage,  \* the browser's store: key -> JSON text
    requests,      \* the fetch calls of syncToCloud, in order: body and promise state
    clock,         \* Date.now()
    nextId,        \* crypto.randomUUID(): the next unused token
    last,          \* the latest call of a public operation and its outcome
    quotaExceeded, \* localStorage.setItem throws: the store is full or refused
    page,          \* main.js: the journal form, the daily panel, ritualTimer, the timeouts set
    rand,          \* a generator seededRandom returned: its seed, its h, its latest draw
    budget         \* steps the run may still take

textVars == <<text, scan, signals>>
worldVars ==
    <<aurelia, activeUserId, localStorage, requests, clock, nextId, last, quotaExceeded,
      page, rand, budget>>
vars == <<text, scan, signals, aurelia, activeUserId, localStorage, requests, clock,
          nextId, last, quotaExceeded, page, rand, budget>>

(***************************************************************************)
(* Arithmetic                                                              *)
(***************************************************************************)
\* the fixed-point unit: four decimal digits
ONE == 100 * 100

Min(a, b) == IF a <= b THEN a ELSE b
Max(a, b) == IF a >= b THEN a ELSE b
Abs(a) == IF a < 0 THEN -a ELSE a

\* Op applied to a value that is computed once
With(value, Op(_)) == CHOOSE result \in { Op(v) : v \in {value} } : TRUE

\* Math.max(min, value): the upper limit forgotten
clampNoCeiling(value, min, max) == Max(min, value)

\* Math.max(min, Math.min(max, value))
clamp(value, min, max) == Max(min, Min(max, value))

\* nearest integer to n / d, d > 0
RoundDiv(n, d) == (2 * n + d) \div (2 * d)

\* a * b for fixed-point a and b
Mul(a, b) == RoundDiv(a * b, ONE)

RECURSIVE Gcd(_, _)
Gcd(a, b) == IF b = 0 THEN a ELSE Gcd(b, a % b)

\* the rational n / d in lowest terms, d > 0
Q(n, d) ==
    LET g == Gcd(Abs(n), d)
    IN  [n |-> n \div g, d |-> d \div g]

QZero == [n |-> 0, d |-> 1]
QOne == [n |-> 1, d |-> 1]
QAdd(p, q) == Q(p.n * q.d + q.n * p.d, p.d * q.d)
QMul(p, q) == Q(p.n * q.n, p.d * q.d)
QLess(p, q) == p.n * q.d < q.n * p.d
QMin(p, q) == IF QLess(q, p) THEN q ELSE p
QMax(p, q) == IF QLess(p, q) THEN q ELSE p
QClamp(value, min, max) == QMax(min, QMin(max, value))

\* a rational as a fixed-point scalar
Fx(q) == RoundDiv(q.n * ONE, q.d)

(***************************************************************************)
(* JavaScript values handed to the text pipeline                           *)
(*                                                                         *)
(* A string is a sequence of characters.  An ASCII character is the        *)
(* one-character string; a letter outside ASCII is named ("c_caron").      *)
(***************************************************************************)
JsString(chars) == [type |-> "string", chars |-> chars]
JsNull == [type |-> "null"]
JsUndefined == [type |-> "undefined"]

\* the characters of an ASCII string
Chars(s) == [i \in 1..Len(s) |-> SubSeq(s, i, i)]

\* an ASCII string as a JavaScript string
Str(s) == JsString(Chars(s))

LowerAscii == "abcdefghijklmnopqrstuvwxyz"
UpperAscii == "ABCDEFGHIJKLMNOPQRSTUVWXYZ"
Digits == "0123456789"

\* precomposed letters with a diacritic: <<upper, lower, base letter>>
Accented ==
    { <<"C_caron", "c_caron", "c">>, <<"E_caron", "e_caron", "e">>,
      <<"I_acute", "i_acute", "i">>, <<"Z_caron", "z_caron", "z">> }

IsLetter(c) ==
    \/ \E i \in 1..Len(LowerAscii) : c = SubSeq(LowerAscii, i, i)
    \/ \E i \in 1..Len(UpperAscii) : c = SubSeq(UpperAscii, i, i)
    \/ \E a \in Accented : c = a[1] \/ c = a[2]

IsDigit(c) == \E i \in 1..Len(Digits) : c = SubSeq(Digits, i, i)

\* String.prototype.toLowerCase, one character
toLowerCase(c) ==
    IF \E i \in 1..Len(UpperAscii) : c = SubSeq(UpperAscii, i, i)
    THEN LET i == CHOOSE k \in 1..Len(UpperAscii) : c = SubSeq(UpperAscii, k, k)
         IN  SubSeq(LowerAscii, i, i)
    ELSE IF \E a \in Accented : c = a[1]
         THEN (CHOOSE a \in Accented : c = a[1])[2]
         ELSE c

\* the class [\p{L}\p{N}'] of the tokenizer
IsTokenChar(c) == IsLetter(c) \/ IsDigit(c) \/ c = "'"

\* text.toLowerCase().match(/[\p{L}\p{N}']+/gu): the maximal runs
RECURSIVE Runs(_, _, _)
Runs(chars, i, run) ==
    IF i > Len(chars)
    THEN IF run = <<>> THEN <<>> ELSE <<run>>
    ELSE LET c == toLowerCase(chars[i])
         IN  IF IsTokenChar(c)
             THEN Runs(chars, i + 1, Append(run, c))
             ELSE IF run = <<>>
                  THEN Runs(chars, i + 1, <<>>)
                  ELSE <<run>> \o Runs(chars, i + 1, <<>>)

tokenize(str) == Runs(str.chars, 1, <<>>)

\* token.normalize("NFD").replace(/[\u0300-\u036f]/g, "").replace(/[' U+2019 `]/g, "")
RECURSIVE normalizeToken(_)
normalizeToken(token) ==
    IF token = <<>> THEN ""
    ELSE LET c == Head(token)
             plain == IF \E a \in Accented : c = a[2]
                      THEN (CHOOSE a \in Accented : c = a[2])[3]
                      ELSE IF c = "'" THEN "" ELSE c
         IN  plain \o normalizeToken(Tail(token))

(***************************************************************************)
(* Lexicons (weights in tenths)                                            *)
(***************************************************************************)
POSITIVE_WORDS ==
    "calm" :> 6 @@ "ok" :> 3 @@ "fine" :> 4 @@ "good" :> 6 @@ "great" :> 8 @@
    "better" :> 5 @@ "improve" :> 5 @@ "progress" :> 5 @@ "hope" :> 5 @@
    "hopeful" :> 6 @@ "safe" :> 6 @@ "secure" :> 6 @@ "comfort" :> 5 @@
    "thanks" :> 4 @@ "thank" :> 4 @@ "grateful" :> 6 @@ "love" :> 7 @@
    "trust" :> 7 @@ "support" :> 5 @@ "care" :> 4 @@ "relief" :> 6 @@
    "peace" :> 6 @@ "joy" :> 7 @@ "happy" :> 7 @@ "smile" :> 4 @@
    "light" :> 4 @@ "warm" :> 4 @@ "heal" :> 5 @@ "healing" :> 5 @@
    "klid" :> 6 @@ "dobre" :> 6 @@ "diky" :> 4 @@ "vdecny" :> 6 @@
    "spokojeny" :> 6 @@ "spokojenost" :> 6 @@ "uleva" :> 6 @@
    "radost" :> 7 @@ "rad" :> 5 @@ "nadeje" :> 5 @@ "bezpeci" :> 6

NEGATIVE_WORDS ==
    "bad" :> 6 @@ "sad" :> 6 @@ "hurt" :> 7 @@ "angry" :> 7 @@ "fear" :> 8 @@
    "anxiety" :> 8 @@ "anxious" :> 8 @@ "depression" :> 9 @@
    "depressed" :> 9 @@ "hopeless" :> 8 @@ "helpless" :> 8 @@ "tired" :> 5 @@
    "exhausted" :> 7 @@ "sick" :> 6 @@ "lost" :> 6 @@ "empty" :> 6 @@
    "alone" :> 7 @@ "panic" :> 8 @@ "pain" :> 7 @@ "stress" :> 6 @@
    "stres" :> 6 @@ "worry" :> 6 @@ "danger" :> 7 @@ "broken" :> 7 @@
    "rage" :> 7 @@ "cold" :> 4 @@ "smutek" :> 7 @@ "strach" :> 8 @@
    "bojim" :> 7 @@ "uzkost" :> 8 @@ "deprese" :> 9 @@ "zoufalstvi" :> 8 @@
    "bezmoc" :> 8 @@ "tma" :> 5 @@ "temno" :> 6 @@ "bolest" :> 7 @@
    "sam" :> 7 @@ "samota" :> 8 @@ "vycerpany" :> 7 @@ "zlomeny" :> 8 @@
    "zlost" :> 7

INTENSIFIERS ==
    "very" :> 5 @@ "really" :> 4 @@ "deeply" :> 5 @@ "strongly" :> 5 @@
    "extremely" :> 7 @@ "so" :> 2 @@ "too" :> 4 @@ "mega" :> 5 @@
    "super" :> 4 @@ "totally" :> 5 @@ "quite" :> 2 @@ "fakt" :> 4 @@
    "hodne" :> 4 @@ "moc" :> 4 @@ "uplne" :> 5 @@ "totalne" :> 5 @@
    "vazne" :> 4 @@ "silne" :> 4 @@ "strasne" :> 5

NEGATIONS ==
    {"not", "no", "never", "none", "ne", "neni", "nejsi", "nejsem", "nikdy",
    "bez", "nic", "nikdo", "zadny", "zadna", "zadne"}

THEMES_conflict ==
    {"fight", "argue", "broken", "chaos", "pressure", "conflict", "attack",
    "confuse", "war", "tension", "clash", "friction", "battle", "rage",
    "konflikt", "boj", "tlak", "napeti", "hadka", "spor", "krize", "hnev"}

THEMES_stability ==
    {"stable", "balance", "home", "safe", "steady", "order", "routine",
    "peace", "anchor", "ground", "rest", "sleep", "harmonie", "rovnovaha",
    "klid", "stabilita", "rad", "rutina", "domov", "bezpeci", "jistota"}

THEMES_curiosity ==
    {"why", "wonder", "learn", "explore", "new", "change", "curious",
    "question", "discover", "seek", "search", "unknown", "interest",
    "investigate", "zvedavy", "proc", "objev", "objevovat", "novy", "nove",
    "zmena", "zkoumat", "zvedavost", "zajima", "hledat", "otazka",
    "prekvapeni"}

(***************************************************************************)
(* Stemming and lookup                                                     *)
(***************************************************************************)
suffixes ==
    <<"ingly", "edly", "tions", "tion", "ment", "ovat", "ing", "ed", "ly",
    "es", "s", "ami", "emi", "ovi", "ova", "ove", "ovy", "ich", "ych", "ymi",
    "mi", "ni", "mu", "me", "ne", "na", "ny", "ho", "he", "ka", "ke", "ku",
    "ky", "ce", "ci">>

endsWith(token, suffix) ==
    /\ Len(token) >= Len(suffix)
    /\ SubSeq(token, Len(token) - Len(suffix) + 1, Len(token)) = suffix

\* the first suffix of the list that leaves at least 3 characters
stemToken(token) ==
    IF Len(token) <= 3 THEN token
    ELSE LET hits == { k \in 1..Len(suffixes) :
                         /\ Len(token) - Len(suffixes[k]) >= 3
                         /\ endsWith(token, suffixes[k]) }
         IN  IF hits = {} THEN token
             ELSE LET k == CHOOSE h \in hits : \A o \in hits : h <= o
                  IN  SubSeq(token, 1, Len(token) - Len(suffixes[k]))

getWeight(map, base, stem) ==
    IF base \in DOMAIN map THEN map[base]
    ELSE IF stem # "" /\ stem \in DOMAIN map THEN map[stem]
    ELSE 0

hasTheme(set, base, stem) == base \in set \/ (stem # "" /\ stem \in set)

(***************************************************************************)
(* analyzeText                                                             *)
(***************************************************************************)
emptySignals ==
    [sentiment |-> QZero, intensity |-> QZero,
     themeWeight |-> [conflict |-> QZero, stability |-> QZero, curiosity |-> QZero]]

\* the locals before the loop
scanStart ==
    [pos |-> 0, neg |-> 0, intensityBoost |-> 0,
     themeCounts |-> [conflict |-> 0, stability |-> 0, curiosity |-> 0],
     negateNext |-> FALSE]

\* the polarity of a token before negation: positive weight minus negative weight
rawPolarity(base, stem) ==
    getWeight(POSITIVE_WORDS, base, stem) - getWeight(NEGATIVE_WORDS, base, stem)

\* the loop body clearing negateNext only on a token that carries polarity
scanTokenKeepsFlag(acc, token) ==
    LET base == normalizeToken(token)
        stem == stemToken(base)
        intensifier == getWeight(INTENSIFIERS, base, stem)
        raw == rawPolarity(base, stem)
        polarity == IF raw # 0 /\ acc.negateNext THEN -raw ELSE raw
        bump(set) == IF hasTheme(set, base, stem) THEN 1 ELSE 0
    IN  IF base = "" THEN acc
        ELSE IF base \in NEGATIONS THEN [acc EXCEPT !.negateNext = TRUE]
        ELSE IF intensifier # 0
             THEN [acc EXCEPT !.intensityBoost = @ + intensifier]
        ELSE [pos |-> IF polarity > 0 THEN acc.pos + polarity ELSE acc.pos,
              neg |-> IF polarity < 0 THEN acc.neg + Abs(polarity) ELSE acc.neg,
              intensityBoost |-> acc.intensityBoost,
              themeCounts |->
                  [conflict |-> acc.themeCounts.conflict + bump(THEMES_conflict),
                   stability |-> acc.themeCounts.stability + bump(THEMES_stability),
                   curiosity |-> acc.themeCounts.curiosity + bump(THEMES_curiosity)],
              negateNext |-> IF raw = 0 THEN acc.negateNext ELSE FALSE]

\* one iteration of the loop over the tokens
scanToken(acc, token) ==
    LET base == normalizeToken(token)
        stem == stemToken(base)
        intensifier == getWeight(INTENSIFIERS, base, stem)
        raw == rawPolarity(base, stem)
        polarity == IF raw # 0 /\ acc.negateNext THEN -raw ELSE raw
        bump(set) == IF hasTheme(set, base, stem) THEN 1 ELSE 0
    IN  IF base = "" THEN acc
        ELSE IF base \in NEGATIONS THEN [acc EXCEPT !.negateNext = TRUE]
        ELSE IF intensifier # 0
             THEN [acc EXCEPT !.intensityBoost = @ + intensifier]
        ELSE [pos |-> IF polarity > 0 THEN acc.pos + polarity ELSE acc.pos,
              neg |-> IF polarity < 0 THEN acc.neg + Abs(polarity) ELSE acc.neg,
              intensityBoost |-> acc.intensityBoost,
              themeCounts |->
                  [conflict |-> acc.themeCounts.conflict + bump(THEMES_conflict),
                   stability |-> acc.themeCounts.stability + bump(THEMES_stability),
                   curiosity |-> acc.themeCounts.curiosity + bump(THEMES_curiosity)],
              negateNext |-> FALSE]

RECURSIVE scanAll(_, _, _)
scanAll(acc, tokens, i) ==
    IF i > Len(tokens) THEN acc
    ELSE With(scanToken(acc, tokens[i]), LAMBDA next : scanAll(next, tokens, i + 1))

\* the count divided by the number of themes instead of the matches
themeShareOfThree(count, themeSum) == IF themeSum > 0 THEN Q(count, 3) ELSE QZero

\* the normalized weight of one theme
themeShare(count, themeSum) == IF themeSum > 0 THEN Q(count, themeSum) ELSE QZero

\* what the function computes after the loop
signalsOf(acc, nTokens) ==
    LET totalPolarity == acc.pos + acc.neg
        sentiment == IF totalPolarity > 0
                     THEN QClamp(Q(acc.pos - acc.neg, totalPolarity), Q(-1, 1), QOne)
                     ELSE QZero
        themeSum == acc.themeCounts.conflict + acc.themeCounts.stability
                        + acc.themeCounts.curiosity
        lengthFactor == QClamp(Q(nTokens, 30), QZero, QOne)
        polarityFactor == IF totalPolarity > 0
                          THEN QClamp(Q(totalPolarity, 10 * nTokens), QZero, QOne)
                          ELSE QZero
        themeFactor == IF themeSum > 0
                       THEN QClamp(Q(themeSum, nTokens), QZero, QOne)
                       ELSE QZero
        boost == QClamp(Q(acc.intensityBoost, 10), QZero, QOne)
        intensity ==
            QClamp(QAdd(QAdd(QMul(Q(4, 10), lengthFactor),
                             QMul(Q(35, 100), QAdd(polarityFactor, themeFactor))),
                        QMul(Q(25, 100), boost)),
                   QZero, QOne)
    IN  [sentiment |-> sentiment, intensity |-> intensity,
         themeWeight |->
             [conflict |-> themeShare(acc.themeCounts.conflict, themeSum),
              stability |-> themeShare(acc.themeCounts.stability, themeSum),
              curiosity |-> themeShare(acc.themeCounts.curiosity, themeSum)]]

\* text.toLowerCase() on a value that is no string raises a TypeError
analyzeTextThrows(txt) == txt.type # "string"

analyzeText(txt) ==
    LET tokens == tokenize(txt)
    IN  IF Len(tokens) = 0 THEN emptySignals
        ELSE signalsOf(scanAll(scanStart, tokens, 1), Len(tokens))

(***************************************************************************)
(* analyzeText as a process: the call, the loop over the tokens, the return *)
(***************************************************************************)
MaxWords == 3

NoSignals == [none |-> TRUE]

\* words an entry is made of: negations, an unscored word, polarity words
\* with and without a theme, an intensifier, theme-only words, a word that
\* is matched through its stem, a lone apostrophe
Vocabulary ==
    {"ne", "nejsem", "v", "klid", "bezpeci", "moc", "strach", "broken", "boj",
     "proc", "klidne", "'"}

RECURSIVE joinWords(_)
joinWords(words) ==
    IF Len(words) = 0 THEN <<>>
    ELSE IF Len(words) = 1 THEN Chars(words[1])
    ELSE Chars(words[1]) \o <<" ">> \o joinWords(Tail(words))

WordTexts ==
    { JsString(joinWords(ws)) :
        ws \in UNION { [1..n -> Vocabulary] : n \in 1..MaxWords } }

FixedTexts ==
    { Str(""), Str("   "), Str("ne klid, ne bezpeci"), Str("nejsem v bezpeci"),
      Str("Not VERY good."),
      JsString(Chars("Bezpe") \o <<"C_caron", "i_acute">> \o Chars(" a klid")) }

NonStrings == {JsNull, JsUndefined}

AnalyzeInputs == WordTexts \cup FixedTexts \cup NonStrings

scanIdle == [pc |-> "idle", tokens |-> <<>>, i |-> 1, acc |-> scanStart, trail |-> <<>>]

TextIdle == text = JsNull /\ scan = scanIdle /\ signals = NoSignals

\* const tokens = tokenize(text); if (tokens.length === 0) return emptySignals();
AnalyzeCall ==
    /\ scan.pc = "call"
    /\ IF analyzeTextThrows(text)
       THEN /\ scan' = [scan EXCEPT !.pc = "threw"]
            /\ UNCHANGED signals
       ELSE LET tokens == tokenize(text)
            IN  IF Len(tokens) = 0
                THEN /\ scan' = [scan EXCEPT !.pc = "returned"]
                     /\ signals' = emptySignals
                ELSE /\ scan' = [scan EXCEPT !.pc = "loop", !.tokens = tokens]
                     /\ UNCHANGED signals
    /\ UNCHANGED <<text, worldVars>>

\* for (const token of tokens) { ... }
ScanToken ==
    /\ scan.pc = "loop"
    /\ scan.i <= Len(scan.tokens)
    /\ LET acc == scanToken(scan.acc, scan.tokens[scan.i])
       IN  scan' = [scan EXCEPT !.acc = acc, !.i = @ + 1, !.trail = Append(@, acc)]
    /\ UNCHANGED <<text, signals, worldVars>>

\* return { sentiment, intensity, themeWeight };
AnalyzeReturn ==
    /\ scan.pc = "loop"
    /\ scan.i > Len(scan.tokens)
    /\ signals' = signalsOf(scan.acc, Len(scan.tokens))
    /\ scan' = [scan EXCEPT !.pc = "returned"]
    /\ UNCHANGED <<text, worldVars>>

(***************************************************************************)
(* 32-bit integers: a word is [hi, lo], two 16-bit halves                  *)
(***************************************************************************)
U32(hi, lo) == [hi |-> hi, lo |-> lo]

RECURSIVE xorBits(_, _, _)
xorBits(a, b, bits) ==
    IF bits = 0 THEN 0
    ELSE ((a + b) % 2) + 2 * xorBits(a \div 2, b \div 2, bits - 1)

RECURSIVE orBits(_, _, _)
orBits(a, b, bits) ==
    IF bits = 0 THEN 0
    ELSE (IF a % 2 = 1 \/ b % 2 = 1 THEN 1 ELSE 0)
             + 2 * orBits(a \div 2, b \div 2, bits - 1)

RECURSIVE pow2(_)
pow2(k) == IF k = 0 THEN 1 ELSE 2 * pow2(k - 1)

HALF == pow2(16)

Xor32(a, b) == U32(xorBits(a.hi, b.hi, 16), xorBits(a.lo, b.lo, 16))
Or32(a, b) == U32(orBits(a.hi, b.hi, 16), orBits(a.lo, b.lo, 16))

Add32(a, b) ==
    LET lo == a.lo + b.lo
    IN  U32((a.hi + b.hi + lo \div HALF) % HALF, lo % HALF)


\* x >>> k, 0 < k < 16
Shr32(x, k) ==
    U32(x.hi \div pow2(k), (x.hi % pow2(k)) * pow2(16 - k) + x.lo \div pow2(k))

\* the low 16 bits of a * b for 16-bit a, b
mulLow16(a, b) ==
    LET a1 == a \div 256  a0 == a % 256
    IN  (a0 * b + ((a1 * b) % 256) * 256) % HALF

\* the high 16 bits of the 32-bit product a * b for 16-bit a, b
mulHigh16(a, b) ==
    LET a1 == a \div 256  a0 == a % 256
        b1 == b \div 256  b0 == b % 256
        mid == a1 * b0 + a0 * b1 + (a0 * b0) \div 256
    IN  (a1 * b1 + mid \div 256) % HALF

\* Math.imul: the low 32 bits of a * b
imul(a, b) ==
    U32((mulHigh16(a.lo, b.lo) + mulLow16(a.hi, b.lo) + mulLow16(a.lo, b.hi)) % HALF,
        mulLow16(a.lo, b.lo))

\* String.prototype.charCodeAt for the characters seeds are made of
charCodeAt(c) ==
    IF \E i \in 1..Len(LowerAscii) : c = SubSeq(LowerAscii, i, i)
    THEN 96 + (CHOOSE i \in 1..Len(LowerAscii) : c = SubSeq(LowerAscii, i, i))
    ELSE IF \E i \in 1..Len(UpperAscii) : c = SubSeq(UpperAscii, i, i)
    THEN 64 + (CHOOSE i \in 1..Len(UpperAscii) : c = SubSeq(UpperAscii, i, i))
    ELSE IF \E i \in 1..Len(Digits) : c = SubSeq(Digits, i, i)
    THEN 47 + (CHOOSE i \in 1..Len(Digits) : c = SubSeq(Digits, i, i))
    ELSE IF c = "_" THEN 95 ELSE IF c = "-" THEN 45 ELSE 32

\* a string as seededRandom reads it: the UTF-16 code units charCodeAt(i) gives
codeUnits(str) == [i \in 1..Len(str) |-> charCodeAt(SubSeq(str, i, i))]

(***************************************************************************)
(* seededRandom                                                            *)
(***************************************************************************)
FNV_OFFSET == U32(33052, 40389)      \* 2166136261
FNV_PRIME == U32(256, 403)           \* 16777619
MIX_STEP == U32(27947, 31221)        \* 0x6d2b79f5

\* multiply, then xor: the two statements of the loop in the other order
RECURSIVE fnvFoldMultiplyFirst(_, _)
fnvFoldMultiplyFirst(seed, n) ==
    IF n = 0 THEN FNV_OFFSET
    ELSE LET h == fnvFoldMultiplyFirst(seed, n - 1)
         IN  IF h.lo < 0 THEN h
             ELSE Xor32(imul(h, FNV_PRIME), U32(seed[n] \div HALF, seed[n] % HALF))

\* the generator's state h after folding the first n code units of the seed;
\* h ^= ... and Math.imul leave the 32 bits of h, which is all the draws read
RECURSIVE fnvFold(_, _)
fnvFold(seed, n) ==
    IF n = 0 THEN FNV_OFFSET
    ELSE LET h == fnvFold(seed, n - 1)
         IN  IF h.lo < 0 THEN h
             ELSE imul(Xor32(h, U32(seed[n] \div HALF, seed[n] % HALF)), FNV_PRIME)

seedHash(seed) == fnvFold(seed, Len(seed))

\* h += 0x6d2b79f5: the sum is not reduced, but the bitwise operators and
\* Math.imul that read h take it modulo 2^32, exactly while h is below 2^53
randAdvance(h) == Add32(h, MIX_STEP)

\* the 32-bit output of a draw whose state, after the increment, is h
randMix(h) ==
    LET t1 == imul(Xor32(h, Shr32(h, 15)), Or32(U32(0, 1), h))
        t2 == Xor32(t1, Add32(t1, imul(Xor32(t1, Shr32(t1, 7)), Or32(U32(0, 61), t1))))
    IN  Xor32(t2, Shr32(t2, 14))

\* word / 4294967296 as a fixed-point scalar in [0, ONE)
unitOf(word) == (word.hi * ONE) \div HALF

\* the state after the n-th draw
RECURSIVE randState(_, _)
randState(seed, n) ==
    IF n = 0 THEN seedHash(seed)
    ELSE LET h == randState(seed, n - 1)
         IN  IF h.lo < 0 THEN h ELSE randAdvance(h)

\* the n-th value rand() returns for a seed
randDraw(seed, n) == unitOf(randMix(randState(seed, n)))

(***************************************************************************)
(* The entity: constants and baseline                                      *)
(***************************************************************************)
Null == [null |-> TRUE]

\* the decimal n / d as a fixed-point scalar
F(n, d) == (n * ONE) \div d

\* the clock is in milliseconds, held as the calendar day of the local zone
\* and the milliseconds into it; a day's length
DAY_MS == 24 * 60 * 60 * 1000

\* noon of a day
noonOf(day) == [day |-> day, ms |-> DAY_MS \div 2]

DECAY_RATE == 9200
LONG_MEMORY_RATE == 400
MID_MEMORY_RATE == 1200
EPOCH_SIZE == 7
MAX_EPOCHS == 12
MAX_DAILY_LOGS == 400
DAILY_STEP == 1000
DAILY_IMPRINT_THRESHOLD == 8000
DAILY_IMPRINT_STEP == 1200

BASELINE ==
    [presence |-> [awareness |-> F(2, 10), tension |-> F(5, 100),
                   entropy |-> F(3, 100), curiosity |-> F(3, 10)],
     innerState |-> [trust |-> F(5, 10), fear |-> F(2, 10),
                     stability |-> F(5, 10), curiosity |-> F(4, 10)],
     midMemory |-> [conflict |-> F(4, 10), stability |-> F(5, 10),
                    curiosity |-> F(4, 10), sentiment |-> 0],
     longMemory |-> [conflict |-> F(35, 100), stability |-> F(5, 10),
                     curiosity |-> F(4, 10), sentiment |-> 0],
     daily |-> [lastQuestionDate |-> Null, trend |-> 0, imprint |-> 0,
                lastIntensity |-> 0, lastImprintAt |-> Null,
                lastSummaryWeek |-> Null],
     geography |-> [seedA |-> F(37, 100), seedB |-> F(61, 100)]]

\* getLocalDateKey: the calendar day the clock is in
getLocalDateKey(now) == [day |-> now.day]

\* a Date.now() value stored in a field that is null until it is first set
Stamp(now) == [ms |-> now]

lerp(a, b, t) == a + Mul(b - a, t)

\* value - Math.floor(value)
fract(value) == value % ONE

(***************************************************************************)
(* createIdentity, createAureliaCore                                       *)
(***************************************************************************)
\* the user id tried before the planet seed
baseSeedUserFirst(userId, planetSeed, uuid) ==
    IF userId # "" THEN userId
    ELSE IF planetSeed # "" THEN planetSeed
    ELSE uuid

\* planetSeed || userId || a random token
baseSeedOf(userId, planetSeed, uuid) ==
    IF planetSeed # "" THEN planetSeed
    ELSE IF userId # "" THEN userId
    ELSE uuid

createIdentity(userId, planetSeed, uuid) ==
    With(baseSeedOf(userId, planetSeed, uuid), LAMBDA seed :
    With(codeUnits(seed), LAMBDA units :
        [seed |-> seed,
         seedA |-> randDraw(units, 1),
         seedB |-> randDraw(units, 2),
         paletteBias |-> randDraw(units, 3) * 2 - ONE,
         ringTilt |-> randDraw(units, 4) * 2 - ONE,
         cloudSeed |-> randDraw(units, 5)]))

\* ids: crypto.randomUUID() is the next unused number of a counter
uuidOf(n) == "uuid" \o ToString(n)

\* createIdentity draws a random token only when it is given no seed and no user
needsToken(options) == options.planetSeed = "" /\ options.userId = ""

\* the ids createAureliaCore draws: the identity's token, when needed, and meta.id
coreIds(options) == IF needsToken(options) THEN 2 ELSE 1

\* options = {userId, planetSeed}; "" stands for null
createAureliaCore(options, now, id) ==
    With(createIdentity(options.userId, options.planetSeed, uuidOf(id)), LAMBDA identity :
        [meta |-> [id |-> uuidOf(id + coreIds(options) - 1), version |-> "1.0.0",
                   createdAt |-> now, lastUpdatedAt |-> now, userId |-> options.userId],
         presence |-> [awareness |-> F(2, 10), mood |-> "observing",
                       tension |-> F(5, 100), entropy |-> F(3, 100),
                       curiosity |-> F(3, 10), lastReactionAt |-> Null,
                       lastMajorShiftAt |-> Null],
         drives |-> [equilibrium |-> F(5, 10), change |-> F(3, 10),
                     resistance |-> F(4, 10)],
         laws |-> [stability |-> F(6, 10), permeability |-> F(3, 10),
                   entropyRate |-> F(2, 100), responseForce |-> F(4, 10),
                   timeFlow |-> ONE, distortion |-> 0],
         perception |-> [interferenceLevel |-> 0, patternConfidence |-> 0,
                         unpredictability |-> F(5, 10)],
         thresholds |-> [notice |-> F(1, 10), micro |-> F(25, 100),
                         major |-> F(65, 100)],
         innerState |-> [trust |-> F(5, 10), fear |-> F(2, 10),
                         stability |-> F(5, 10), curiosity |-> F(4, 10),
                         attachment |-> F(3, 10)],
         conflicts |-> [orderVsChaos |-> 0, controlVsFreedom |-> 0,
                        closenessVsDistance |-> 0],
         longMemory |-> [conflict |-> F(35, 100), stability |-> F(5, 10),
                         curiosity |-> F(4, 10), sentiment |-> 0],
         midMemory |-> [conflict |-> F(4, 10), stability |-> F(5, 10),
                        curiosity |-> F(4, 10), sentiment |-> 0],
         epochs |-> <<>>,
         epochBuffer |-> [count |-> 0, conflict |-> 0, stability |-> 0,
                          curiosity |-> 0, sentiment |-> 0],
         daily |-> [lastQuestionDate |-> Null, trend |-> 0, imprint |-> 0,
                    lastIntensity |-> 0, lastImprintAt |-> Null,
                    lastSummaryWeek |-> Null],
         dailyLogs |-> <<>>,
         dailyDraft |-> Null,
         geography |-> [seedA |-> identity.seedA, seedB |-> identity.seedB],
         identity |-> identity,
         memory |-> <<>>,
         marks |-> <<>>])

(***************************************************************************)
(* Helpers of the journal pipeline                                         *)
(***************************************************************************)
\* the sign slipped: the value lands on the far side of the baseline
decayValueAcross(current, baseline) == baseline - Mul(current - baseline, DECAY_RATE)

decayValue(current, baseline) == baseline + Mul(current - baseline, DECAY_RATE)

\* the decay applied a second time within the entry
applyDecayTwice(state) ==
    LET p == state.presence
        i == state.innerState
        again(current, baseline) == decayValue(decayValue(current, baseline), baseline)
    IN  [state EXCEPT
            !.presence.awareness = again(p.awareness, BASELINE.presence.awareness),
            !.presence.tension = again(p.tension, BASELINE.presence.tension),
            !.presence.entropy = again(p.entropy, BASELINE.presence.entropy),
            !.presence.curiosity = again(p.curiosity, BASELINE.presence.curiosity),
            !.innerState.trust = again(i.trust, BASELINE.innerState.trust),
            !.innerState.fear = again(i.fear, BASELINE.innerState.fear),
            !.innerState.stability = again(i.stability, BASELINE.innerState.stability),
            !.innerState.curiosity = again(i.curiosity, BASELINE.innerState.curiosity)]

applyDecay(state) ==
    LET p == state.presence
        i == state.innerState
    IN  [state EXCEPT
            !.presence.awareness = decayValue(p.awareness, BASELINE.presence.awareness),
            !.presence.tension = decayValue(p.tension, BASELINE.presence.tension),
            !.presence.entropy = decayValue(p.entropy, BASELINE.presence.entropy),
            !.presence.curiosity = decayValue(p.curiosity, BASELINE.presence.curiosity),
            !.innerState.trust = decayValue(i.trust, BASELINE.innerState.trust),
            !.innerState.fear = decayValue(i.fear, BASELINE.innerState.fear),
            !.innerState.stability = decayValue(i.stability, BASELINE.innerState.stability),
            !.innerState.curiosity = decayValue(i.curiosity, BASELINE.innerState.curiosity)]

\* the rule for "curious" tried before the rule for "disturbed"
deriveMoodCuriousFirst(presence, innerState) ==
    IF innerState.fear > F(7, 10) /\ presence.tension > F(6, 10) THEN "hostile"
    ELSE IF presence.curiosity > F(6, 10) THEN "curious"
    ELSE IF presence.tension > F(65, 100) \/ presence.entropy > F(65, 100) THEN "disturbed"
    ELSE IF innerState.trust > F(65, 100) /\ presence.tension < F(3, 10) THEN "calm"
    ELSE "observing"

deriveMood(presence, innerState) ==
    IF innerState.fear > F(7, 10) /\ presence.tension > F(6, 10) THEN "hostile"
    ELSE IF presence.tension > F(65, 100) \/ presence.entropy > F(65, 100) THEN "disturbed"
    ELSE IF presence.curiosity > F(6, 10) THEN "curious"
    ELSE IF innerState.trust > F(65, 100) /\ presence.tension < F(3, 10) THEN "calm"
    ELSE "observing"

\* the signals as fixed-point scalars
fixedSignals(sig) ==
    [sentiment |-> Fx(sig.sentiment), intensity |-> Fx(sig.intensity),
     conflict |-> Fx(sig.themeWeight.conflict),
     stability |-> Fx(sig.themeWeight.stability),
     curiosity |-> Fx(sig.themeWeight.curiosity)]

deriveGeography(longMemory, identity) ==
    LET sentimentBias == Mul(longMemory.sentiment + ONE, F(5, 10))
    IN  [seedA |-> fract(identity.seedA + Mul(longMemory.conflict, F(37, 100))
                           + Mul(longMemory.curiosity, F(29, 100))
                           + Mul(sentimentBias, F(11, 100))),
         seedB |-> fract(identity.seedB + Mul(longMemory.stability, F(33, 100))
                           + Mul(longMemory.curiosity, F(21, 100))
                           + Mul(ONE - Abs(longMemory.sentiment), F(17, 100)))]

updateGeography(state, intensity) ==
    LET geo == state.geography
        target == deriveGeography(state.longMemory, state.identity)
        rate == clamp(F(6, 1000) + Mul(intensity, F(3, 100)), F(6, 1000), F(5, 100))
    IN  [state EXCEPT !.geography =
            [seedA |-> lerp(geo.seedA, target.seedA, rate),
             seedB |-> lerp(geo.seedB, target.seedB, rate)]]

\* one exponential-average step of a memory track
mixMemory(mem, sig, mix) ==
    [conflict |-> clamp(lerp(mem.conflict, sig.conflict, mix), 0, ONE),
     stability |-> clamp(lerp(mem.stability, sig.stability, mix), 0, ONE),
     curiosity |-> clamp(lerp(mem.curiosity, sig.curiosity, mix), 0, ONE),
     sentiment |-> clamp(lerp(mem.sentiment, sig.sentiment, mix), -ONE, ONE)]

updateLongMemory(state, sig) ==
    LET mix == clamp(Mul(LONG_MEMORY_RATE, F(4, 10) + Mul(sig.intensity, F(6, 10))),
                     F(1, 100), F(12, 100))
    IN  updateGeography([state EXCEPT !.longMemory = mixMemory(@, sig, mix)],
                        sig.intensity)

updateMidMemory(state, sig) ==
    LET mix == clamp(Mul(MID_MEMORY_RATE, F(55, 100) + Mul(sig.intensity, F(45, 100))),
                     F(5, 100), F(25, 100))
    IN  [state EXCEPT !.midMemory = mixMemory(@, sig, mix)]

(***************************************************************************)
(* Epochs                                                                  *)
(***************************************************************************)
PI == F(31416, 10000)

\* Math.sin, by Bhaskara's rational approximation on a half period
sinHalf(y) ==
    LET p == Mul(y, PI - y)
    IN  RoundDiv(16 * p * 1000, RoundDiv(5 * Mul(PI, PI) - 4 * p, 10))

sin(x) ==
    LET r == x % (2 * PI)
    IN  IF r <= PI THEN sinHalf(r) ELSE -sinHalf(r - PI)

\* value * (whole + frac / 10000) for a fixed-point value
scaleBy(value, whole, frac) == value * whole + RoundDiv(value * frac, 10000)

\* Date.now() * 0.0001 is the count of milliseconds in fixed-point units;
\* only its place in the period of sin is kept
timePhase(now) == (now.day * (DAY_MS % (2 * PI)) + now.ms) % (2 * PI)

deriveEpochSeeds(state, index, now) ==
    LET lm == state.longMemory
        base == timePhase(now) + Mul(lm.conflict, F(313, 100)) + Mul(lm.stability, F(571, 100))
                    + Mul(lm.curiosity, F(297, 100)) + Mul(lm.sentiment, F(141, 100))
                    + index * F(77, 100)
    IN  [seedA |-> fract(scaleBy(sin(base), 43758, 5453)),
         seedB |-> fract(scaleBy(sin(base + F(1234, 1000)), 24634, 6345))]

\* buffer.count >= EPOCH_SIZE - 1: the 6th entry closes
closesEpochEarly(state) == state.epochBuffer.count + 1 >= EPOCH_SIZE - 1

\* the comparison written as > instead of >=
closesEpochLate(state) == state.epochBuffer.count + 1 > EPOCH_SIZE

\* buffer.count += 1; if (buffer.count >= EPOCH_SIZE)
closesEpoch(state) == state.epochBuffer.count + 1 >= EPOCH_SIZE

\* epochs.pop() instead of epochs.shift(): the newest record is dropped
popToCapacity(epochs) ==
    IF Len(epochs) > MAX_EPOCHS THEN SubSeq(epochs, 1, MAX_EPOCHS) ELSE epochs

\* epochs.push(epoch); while (epochs.length > MAX_EPOCHS) epochs.shift();
RECURSIVE shiftToCapacity(_)
shiftToCapacity(epochs) ==
    IF Len(epochs) > MAX_EPOCHS THEN shiftToCapacity(Tail(epochs)) ELSE epochs

\* the index mixed into the seeds of the epoch being closed: the number of
\* records epochs holds before the new one is pushed
epochIndex(state) == Len(state.epochs)

\* the stability weight added to the conflict sum as well
accumulatedStabilityTwice(old, sig) ==
    [count |-> old.count + 1,
     conflict |-> old.conflict + sig.stability,
     stability |-> old.stability + sig.stability,
     curiosity |-> old.curiosity + sig.curiosity,
     sentiment |-> old.sentiment + sig.sentiment]

\* the buffer with one more entry counted and its weights and sentiment added
accumulated(old, sig) ==
    [count |-> old.count + 1,
     conflict |-> old.conflict + sig.conflict,
     stability |-> old.stability + sig.stability,
     curiosity |-> old.curiosity + sig.curiosity,
     sentiment |-> old.sentiment + sig.sentiment]

updateEpochs(state, sig, now, id) ==
    LET buffer == accumulated(state.epochBuffer, sig)
    IN  IF closesEpoch(state)
        THEN LET seeds == deriveEpochSeeds(state, epochIndex(state), now)
                 epoch ==
                     [id |-> uuidOf(id), createdAt |-> now,
                      conflict |-> clamp(RoundDiv(buffer.conflict, buffer.count), 0, ONE),
                      stability |-> clamp(RoundDiv(buffer.stability, buffer.count), 0, ONE),
                      curiosity |-> clamp(RoundDiv(buffer.curiosity, buffer.count), 0, ONE),
                      sentiment |-> clamp(RoundDiv(buffer.sentiment, buffer.count), -ONE, ONE),
                      seedA |-> seeds.seedA, seedB |-> seeds.seedB]
             IN  [state EXCEPT
                     !.epochs = shiftToCapacity(Append(@, epoch)),
                     !.epochBuffer = [count |-> 0, conflict |-> 0, stability |-> 0,
                                      curiosity |-> 0, sentiment |-> 0]]
        ELSE [state EXCEPT !.epochBuffer = buffer]

(***************************************************************************)
(* Daily logs, event log                                                   *)
(***************************************************************************)
\* epochs.slice(-2)
lastTwo(epochs) ==
    IF Len(epochs) <= 2 THEN epochs ELSE SubSeq(epochs, Len(epochs) - 1, Len(epochs))

buildDailySnapshot(state) ==
    LET p == state.presence
        i == state.innerState
        daily == state.daily
        dailyValue == clamp(daily.trend + Mul(daily.imprint, F(6, 10)), -ONE, ONE)
        storm == clamp(-dailyValue, 0, ONE)
        flora == clamp(dailyValue, 0, ONE)
        dayShift == Mul(dailyValue, F(16, 100))
        dayLength == clamp(F(5, 10) + Mul(dayShift, F(5, 10)), F(2, 10), F(8, 10))
        jitter == Mul(storm, F(22, 1000))
    IN  [presence |-> [trust |-> clamp(i.trust, 0, ONE), fear |-> clamp(i.fear, 0, ONE),
                       tension |-> clamp(p.tension, 0, ONE),
                       entropy |-> clamp(p.entropy, 0, ONE),
                       curiosity |-> clamp(p.curiosity, 0, ONE),
                       stability |-> clamp(i.stability, 0, ONE)],
         visualSnapshot |-> [dayLength |-> dayLength, storm |-> storm,
                             flora |-> flora, jitter |-> jitter],
         renderSnapshot |->
             [presence |-> [mood |-> p.mood, tension |-> clamp(p.tension, 0, ONE),
                            entropy |-> clamp(p.entropy, 0, ONE),
                            curiosity |-> clamp(p.curiosity, 0, ONE)],
              innerState |-> [trust |-> clamp(i.trust, 0, ONE),
                              fear |-> clamp(i.fear, 0, ONE),
                              stability |-> clamp(i.stability, 0, ONE)],
              identity |-> state.identity,
              longMemory |-> state.longMemory,
              midMemory |-> state.midMemory,
              geography |-> state.geography,
              daily |-> [trend |-> daily.trend, imprint |-> daily.imprint,
                         lastIntensity |-> daily.lastIntensity],
              epochs |-> lastTwo(state.epochs)]]

\* the position of a key in keys.sort(): the date keys are YYYY-MM-DD
\* strings, whose order as strings is the order of the days
rankOf(key, keys) == Cardinality({ other \in keys : other < key })

\* keys.sort() taken downwards: the newest keys are the ones deleted
pruneNewestLogs(logs) ==
    LET keys == DOMAIN logs
        excess == Cardinality(keys) - MAX_DAILY_LOGS
    IN  IF excess <= 0 THEN logs
        ELSE [d \in { k \in keys : rankOf(k, keys) < MAX_DAILY_LOGS } |-> logs[d]]

pruneDailyLogs(logs) ==
    LET keys == DOMAIN logs
        excess == Cardinality(keys) - MAX_DAILY_LOGS
    IN  IF excess <= 0 THEN logs
        ELSE [d \in { k \in keys : rankOf(k, keys) >= excess } |-> logs[d]]

\* text is "" and signals is null for a day finalized without a draft
upsertDailyLog(state, txt, sig, imprintDelta, now) ==
    LET date == getLocalDateKey(now)
        snapshot == buildDailySnapshot(state)
        entry == [date |-> date, journalEntry |-> txt, signals |-> sig,
                  presence |-> snapshot.presence, imprintDelta |-> imprintDelta,
                  visualSnapshot |-> snapshot.visualSnapshot,
                  renderSnapshot |-> snapshot.renderSnapshot]
        logs == [d \in DOMAIN state.dailyLogs \cup {date.day} |->
                    IF d = date.day THEN entry ELSE state.dailyLogs[d]]
    IN  [state EXCEPT !.dailyLogs = pruneDailyLogs(logs)]

setDailyDraft(state, txt, sig, now) ==
    [state EXCEPT !.dailyDraft =
        [date |-> getLocalDateKey(now), journalEntry |-> txt, signals |-> sig]]

\* the draft never read: the day's log is always written empty
finalizeDailyLogEmpty(state, imprintDelta, now) ==
    upsertDailyLog(state, Str(""), Null, imprintDelta, now)

\* a draft with no date field has date undefined, which equals no date key
finalizeDailyLog(state, imprintDelta, now) ==
    IF /\ state.dailyDraft # Null
       /\ "date" \in DOMAIN state.dailyDraft
       /\ state.dailyDraft.date = getLocalDateKey(now)
    THEN [upsertDailyLog(state, state.dailyDraft.journalEntry,
                         state.dailyDraft.signals, imprintDelta, now)
             EXCEPT !.dailyDraft = Null]
    ELSE upsertDailyLog(state, Str(""), Null, imprintDelta, now)

\* memory.unshift instead of memory.push: the event is put first
addEventFirst(state, type, payload, now, id) ==
    [state EXCEPT
        !.memory = <<[id |-> uuidOf(id), type |-> type,
                      payload |-> payload, timestamp |-> now]>> \o @,
        !.meta.lastUpdatedAt = now]

addEvent(state, type, payload, now, id) ==
    [state EXCEPT
        !.memory = Append(@, [id |-> uuidOf(id), type |-> type,
                              payload |-> payload, timestamp |-> now]),
        !.meta.lastUpdatedAt = now]

(***************************************************************************)
(* The public operations, as functions of the entity                       *)
(***************************************************************************)
needsDailyQuestion(state, now) == state.daily.lastQuestionDate # getLocalDateKey(now)

\* the writes to presence and innerState, the mood and daily.lastIntensity
journalDeltas(state, sig) ==
    LET p == state.presence
        i == state.innerState
        presence ==
            [p EXCEPT
                !.awareness = clamp(@ + Mul(sig.intensity, F(5, 100)), 0, ONE),
                !.tension =
                    clamp(@ + Mul(sig.intensity,
                                  Mul(sig.conflict, F(22, 100))
                                    + Mul(Max(0, -sig.sentiment), F(8, 100))),
                          0, ONE),
                !.entropy =
                    clamp(@ + Mul(Mul(sig.intensity, ONE - sig.stability), F(18, 100)),
                          0, ONE),
                !.curiosity =
                    clamp(@ + Mul(Mul(sig.intensity, sig.curiosity), F(22, 100)), 0, ONE)]
        innerState ==
            [i EXCEPT
                !.fear =
                    clamp(@ + Mul(Mul(Max(0, -sig.sentiment), sig.intensity), F(25, 100)),
                          0, ONE),
                !.trust =
                    clamp(@ + Mul(Mul(Max(0, sig.sentiment), sig.intensity), F(25, 100)),
                          0, ONE),
                !.stability =
                    clamp(@ + Mul(Mul(sig.stability - sig.conflict, sig.intensity),
                                  F(25, 100)), 0, ONE),
                !.curiosity =
                    clamp(@ + Mul(Mul(sig.intensity, sig.curiosity), F(12, 100)), 0, ONE)]
    IN  [state EXCEPT
            !.presence = [presence EXCEPT !.mood = deriveMood(presence, innerState)],
            !.innerState = innerState,
            !.daily.lastIntensity = sig.intensity]

\* applyJournalEntry up to persist(); id is the next unused id
applyJournalEntry(state, txt, now, id) ==
    With(analyzeText(txt), LAMBDA raw :
    With(fixedSignals(raw), LAMBDA sig :
    With(applyDecay(state), LAMBDA decayed :
    With(updateLongMemory(decayed, sig), LAMBDA longDone :
    With(updateMidMemory(longDone, sig), LAMBDA midDone :
    With(updateEpochs(midDone, sig, now, id), LAMBDA remembered :
    With(journalDeltas(remembered, sig), LAMBDA felt :
    With(IF needsDailyQuestion(felt, now)
         THEN setDailyDraft(felt, txt, raw, now)
         ELSE upsertDailyLog(felt, txt, raw, 0, now), LAMBDA logged :
    addEvent(logged, "journal", [text |-> txt, signals |-> raw], now,
             IF closesEpoch(state) THEN id + 1 ELSE id)))))))))

\* the ids applyJournalEntry draws: the epoch's, when one closes, and the event's
journalIds(state) == IF closesEpoch(state) THEN 2 ELSE 1

\* applyDailyAnswer up to persist()
\* Math.abs left out: only a rising trend reaches the threshold
reachedImprintRising(trend) == trend >= DAILY_IMPRINT_THRESHOLD

\* the threshold taken from the wrong constant: the imprint's step
reachedImprintByStep(trend) == Abs(trend) >= DAILY_IMPRINT_STEP

\* const reachedImprint = Math.abs(aurelia.daily.trend) >= DAILY_IMPRINT_THRESHOLD
reachedImprint(trend) == Abs(trend) >= DAILY_IMPRINT_THRESHOLD

applyDailyAnswer(state, isPositive, now, id) ==
    LET intensity == clamp(state.daily.lastIntensity, 0, ONE)
        step == Mul(DAILY_STEP, F(5, 10) + Mul(intensity, F(5, 10)))
        delta == IF isPositive THEN step ELSE -step
        trend == clamp(state.daily.trend + delta, -ONE, ONE)
        p == state.presence
        i == state.innerState
        nudged ==
            IF isPositive
            THEN [state EXCEPT
                    !.daily.trend = trend,
                    !.innerState.trust = clamp(i.trust + F(6, 100), 0, ONE),
                    !.innerState.stability = clamp(i.stability + F(5, 100), 0, ONE),
                    !.presence.tension = clamp(p.tension - F(4, 100), 0, ONE),
                    !.presence.entropy = clamp(p.entropy - F(3, 100), 0, ONE)]
            ELSE [state EXCEPT
                    !.daily.trend = trend,
                    !.innerState.fear = clamp(i.fear + F(6, 100), 0, ONE),
                    !.innerState.stability = clamp(i.stability - F(5, 100), 0, ONE),
                    !.presence.tension = clamp(p.tension + F(5, 100), 0, ONE),
                    !.presence.entropy = clamp(p.entropy + F(4, 100), 0, ONE)]
        reached == reachedImprint(trend)
        sign == IF trend > 0 THEN 1 ELSE IF trend < 0 THEN -1 ELSE 0
        imprintDelta == IF reached THEN sign * DAILY_IMPRINT_STEP ELSE 0
        lm == state.longMemory
        imprinted ==
            IF reached
            THEN [nudged EXCEPT
                    !.daily.imprint = clamp(@ + imprintDelta, -ONE, ONE),
                    !.daily.trend = 0,
                    !.daily.lastImprintAt = Stamp(now),
                    !.longMemory.stability = clamp(lm.stability + sign * F(4, 100), 0, ONE),
                    !.longMemory.conflict = clamp(lm.conflict - sign * F(3, 100), 0, ONE),
                    !.longMemory.sentiment = clamp(lm.sentiment + sign * F(5, 100), -ONE, ONE)]
            ELSE nudged
    IN  With(imprinted, LAMBDA written :
        With([written EXCEPT
                !.presence.mood = deriveMood(written.presence, written.innerState),
                !.daily.lastQuestionDate = getLocalDateKey(now)], LAMBDA answered :
        With(finalizeDailyLog(answered, imprintDelta, now), LAMBDA logged :
        addEvent(logged, "daily_answer",
                 [isPositive |-> isPositive, trend |-> logged.daily.trend], now, id))))

\* a field the caller left out is undefined
answerOf(answers, field) == IF field \in DOMAIN answers THEN answers[field] ELSE ""

\* applyAnswers up to persist(); answers = {truth, responsibility, facing}
applyAnswers(state, answers, now, id) ==
    LET controlVsFreedom ==
            state.conflicts.controlVsFreedom
                + (IF answerOf(answers, "facing") = "escape" THEN F(1, 10) ELSE 0)
                - (IF answerOf(answers, "facing") = "facing" THEN F(5, 100) ELSE 0)
        applied ==
            [state EXCEPT
                !.laws.permeability =
                    IF answerOf(answers, "truth") = "truth" THEN @ + F(1, 10) ELSE @,
                !.laws.stability =
                    IF answerOf(answers, "truth") = "comfort" THEN @ + F(1, 10) ELSE @,
                !.presence.tension =
                    IF answerOf(answers, "responsibility") = "responsibility" THEN @ - F(5, 100)
                    ELSE IF answerOf(answers, "responsibility") = "reaction" THEN @ + F(1, 10)
                    ELSE @,
                !.thresholds.major =
                    IF answerOf(answers, "facing") = "facing" THEN @ + F(5, 100)
                    ELSE IF answerOf(answers, "facing") = "escape" THEN @ - F(5, 100)
                    ELSE @,
                !.conflicts.controlVsFreedom = clamp(controlVsFreedom, -ONE, ONE)]
    IN  addEvent(applied, "answer", answers, now, id)

setWeeklySummaryWeek(state, weekKey) == [state EXCEPT !.daily.lastSummaryWeek = weekKey]

(***************************************************************************)
(* evaluateReaction (core/reactions.js)                                    *)
(***************************************************************************)
pressureOf(state) ==
    Mul(state.presence.awareness, F(4, 10)) + Mul(state.presence.tension, F(4, 10))
        + Mul(state.presence.entropy, F(2, 10))
        + Mul(state.perception.interferenceLevel, F(6, 10))

triggerNoticeReaction(state, now, id) ==
    addEvent([state EXCEPT !.presence.mood = "observing",
                           !.perception.patternConfidence = @ + F(5, 100)],
             "reaction", [type |-> "notice", message |-> "Aurelia noticed a pattern"],
             now, id)

triggerMicroReaction(state, now, id) ==
    LET distortion == state.laws.distortion + F(3, 100)
    IN  addEvent([state EXCEPT !.presence.mood = "curious",
                               !.laws.distortion = distortion,
                               !.presence.lastReactionAt = Stamp(now)],
                 "reaction",
                 [type |-> "micro", message |-> "Aurelia subtly adjusted reality",
                  distortion |-> distortion],
                 now, id)

triggerMajorShift(state, now, id) ==
    LET laws == [state.laws EXCEPT !.stability = @ - F(15, 100),
                                   !.permeability = @ + F(15, 100),
                                   !.distortion = @ + F(25, 100)]
    IN  addEvent([state EXCEPT !.presence.mood = "hostile", !.laws = laws,
                               !.presence.lastMajorShiftAt = Stamp(now)],
                 "major_shift",
                 [message |-> "Aurelia initiated a reality shift", laws |-> laws],
                 now, id)

noticeFires(state, chance) == pressureOf(state) > state.thresholds.notice /\ chance > F(3, 10)
microFires(state, chance) == pressureOf(state) > state.thresholds.micro /\ chance > F(5, 10)
majorFires(state, chance) == pressureOf(state) > state.thresholds.major /\ chance > F(75, 100)

\* the value evaluateReaction returns; the pressure is computed once, on entry
reactionResult(state, chance) ==
    IF microFires(state, chance) THEN "micro"
    ELSE IF majorFires(state, chance) THEN "major"
    ELSE "none"

evaluateReaction(state, chance, now, id) ==
    LET noticed == IF noticeFires(state, chance)
                   THEN triggerNoticeReaction(state, now, id) ELSE state
        nextId2 == IF noticeFires(state, chance) THEN id + 1 ELSE id
    IN  IF microFires(state, chance) THEN triggerMicroReaction(noticed, now, nextId2)
        ELSE IF majorFires(state, chance) THEN triggerMajorShift(noticed, now, nextId2)
        ELSE noticed

\* the ids evaluateReaction draws: one per event appended
reactionIds(state, chance) ==
    (IF noticeFires(state, chance) THEN 1 ELSE 0)
        + (IF microFires(state, chance) \/ majorFires(state, chance) THEN 1 ELSE 0)

(***************************************************************************)
(* Persistence: localStore.js, syncStub.js                                 *)
(***************************************************************************)
KEY_PREFIX == "aurelia_core_v1"
LEGACY_KEY == "aurelia_core_v1"

\* the user id left out of the key: one key for every user
buildKeyShared(userId) == KEY_PREFIX \o "_" \o "local"

buildKey(userId) == KEY_PREFIX \o "_" \o (IF userId = "" THEN "local" ELSE userId)

\* JSON text: every value of the entity is a finite number, a string, null, an
\* array or a plain object, which JSON.parse(JSON.stringify(v)) gives back as
\* they are; text that is not JSON makes JSON.parse throw
JSON_stringify(value) == [json |-> value]
Unparseable == [garbage |-> TRUE]
JSON_parses(raw) == "json" \in DOMAIN raw
JSON_parse(raw) == raw.json

saveLocal(store, state, userId) == (buildKey(userId) :> JSON_stringify(state)) @@ store

\* getItem, then JSON.parse in a try block: null if absent or unparseable
readItem(store, key) ==
    IF key \notin DOMAIN store THEN Null
    ELSE IF JSON_parses(store[key]) THEN JSON_parse(store[key])
    ELSE Null

loadLocal(store, userId) == readItem(store, buildKey(userId))
loadLegacyLocal(store) == readItem(store, LEGACY_KEY)

\* x || null for a timestamp and for a string
msOrNull(ms) == IF ms = [day |-> 0, ms |-> 0] THEN Null ELSE Stamp(ms)
textOrNull(str) == IF str = "" THEN Null ELSE [text |-> str]

buildSafeLogSummary(log) ==
    IF log = Null THEN Null
    ELSE [date |-> log.date,
          imprint_delta |-> log.imprintDelta,
          visual_snapshot |-> [dayLength |-> log.visualSnapshot.dayLength,
                               storm |-> log.visualSnapshot.storm,
                               flora |-> log.visualSnapshot.flora],
          signals |-> IF log.signals = Null THEN Null
                      ELSE [sentiment |-> log.signals.sentiment,
                            intensity |-> log.signals.intensity,
                            themeWeight |-> log.signals.themeWeight]]

\* the journal event's summary also carries payload.text
buildSafeEventSummaryWithText(event) ==
    IF event = Null THEN Null
    ELSE LET summary == [type |-> textOrNull(event.type),
                         timestamp |-> msOrNull(event.timestamp)]
         IN  IF event.type = "journal"
             THEN [text |-> event.payload.text,
                   text_length |-> Len(event.payload.text.chars),
                   signals |-> event.payload.signals] @@ summary
             ELSE summary

buildSafeEventSummary(event) ==
    IF event = Null THEN Null
    ELSE LET summary == [type |-> textOrNull(event.type),
                         timestamp |-> msOrNull(event.timestamp)]
         IN  IF event.type = "journal"
             THEN [text_length |-> Len(event.payload.text.chars),
                   signals |-> event.payload.signals] @@ summary
             ELSE IF event.type = "daily_answer"
             THEN [is_positive |-> event.payload.isPositive,
                   trend |-> event.payload.trend] @@ summary
             ELSE IF event.type \in {"reaction", "major_shift"}
             THEN [variant |-> IF "type" \in DOMAIN event.payload
                               THEN textOrNull(event.payload.type) ELSE Null] @@ summary
             ELSE summary

buildSafeSnapshot(state) ==
    LET days == DOMAIN state.dailyLogs
        lastLog == IF days = {} THEN Null
                   ELSE state.dailyLogs[CHOOSE d \in days : \A o \in days : o <= d]
        lastEvent == IF Len(state.memory) > 0 THEN state.memory[Len(state.memory)]
                     ELSE Null
    IN  [event_type |-> IF lastEvent # Null THEN lastEvent.type ELSE "sync",
         user_id |-> textOrNull(state.meta.userId),
         planet_seed |-> textOrNull(state.identity.seed),
         schema_version |-> 1,
         snapshot |->
             [meta |-> [id |-> textOrNull(state.meta.id),
                        version |-> textOrNull(state.meta.version),
                        created_at |-> msOrNull(state.meta.createdAt),
                        updated_at |-> msOrNull(state.meta.lastUpdatedAt)],
              identity |-> [k \in {"seedA", "seedB", "paletteBias", "ringTilt", "cloudSeed"}
                              |-> state.identity[k]],
              presence |-> [k \in {"mood", "awareness", "tension", "entropy", "curiosity"}
                              |-> state.presence[k]],
              inner_state |-> [k \in {"trust", "fear", "stability", "curiosity"}
                                 |-> state.innerState[k]],
              long_memory |-> state.longMemory,
              mid_memory |-> state.midMemory,
              daily |-> state.daily,
              geography |-> state.geography],
         activity |-> [logs_count |-> Cardinality(days),
                       last_log |-> buildSafeLogSummary(lastLog),
                       last_event |-> buildSafeEventSummary(lastEvent),
                       event_count |-> Len(state.memory)]]

(***************************************************************************)
(* normalizeWorld, ensureDerivedState, initWorld                           *)
(***************************************************************************)
\* the spread in the other order: the fresh core's fields win over the stored ones
mergeSectionBaseWins(base, stored, k) ==
    IF k \in DOMAIN stored THEN base[k] @@ stored[k] ELSE base[k]

\* { ...base[k], ...stored[k] }
mergeSection(base, stored, k) ==
    IF k \in DOMAIN stored THEN stored[k] @@ base[k] ELSE base[k]

\* the typeof tests never succeed: stored seeds are taken as missing
hasSeedsNever(record) == FALSE

\* typeof seedA === "number" && typeof seedB === "number"
hasSeeds(record) == "seedA" \in DOMAIN record /\ "seedB" \in DOMAIN record

ensureDerivedState(state, options, now, id) ==
    LET identity ==
            IF hasSeeds(state.identity) THEN state.identity
            ELSE createIdentity(IF state.meta.userId # "" THEN state.meta.userId
                                ELSE options.userId,
                                options.planetSeed, uuidOf(id))
        needsGeo == \/ ~hasSeeds(state.geography)
                    \/ /\ state.geography.seedA = BASELINE.geography.seedA
                       /\ state.geography.seedB = BASELINE.geography.seedB
    IN  With(identity, LAMBDA ident :
        With([state EXCEPT
                !.identity = ident,
                !.geography = IF needsGeo THEN deriveGeography(state.longMemory, ident)
                              ELSE state.geography], LAMBDA seeded :
        [seeded EXCEPT !.epochs =
            [index \in DOMAIN @ |->
                IF hasSeeds(@[index]) THEN @[index]
                ELSE deriveEpochSeeds(seeded, index - 1, now) @@ @[index]]]))

normalizeWorld(stored, options, now, id) ==
    With(createAureliaCore(options, now, id), LAMBDA base :
    With([meta |-> [mergeSection(base, stored, "meta") EXCEPT !.userId =
                       IF options.userId # "" THEN options.userId
                       ELSE IF "meta" \in DOMAIN stored /\ stored.meta.userId # ""
                       THEN stored.meta.userId
                       ELSE base.meta.userId],
          dailyLogs |-> IF "dailyLogs" \in DOMAIN stored THEN stored.dailyLogs ELSE <<>>,
          dailyDraft |-> IF "dailyDraft" \in DOMAIN stored THEN stored.dailyDraft ELSE Null,
          epochs |-> IF "epochs" \in DOMAIN stored THEN stored.epochs ELSE <<>>,
          memory |-> IF "memory" \in DOMAIN stored THEN stored.memory ELSE <<>>,
          marks |-> IF "marks" \in DOMAIN stored THEN stored.marks ELSE <<>>]
            @@ [k \in {"presence", "drives", "laws", "perception", "thresholds",
                       "innerState", "conflicts", "midMemory", "longMemory",
                       "geography", "identity", "daily", "epochBuffer"}
                  |-> mergeSection(base, stored, k)]
            @@ stored @@ base, LAMBDA normalized :
    ensureDerivedState(normalized, options, now, id + coreIds(options))))

\* options of initWorld: {userId, planetSeed}, "" for a missing or falsy field
normalizeInitOptions(options) ==
    [userId |-> IF options.userId # "" THEN options.userId ELSE "local",
     planetSeed |-> options.planetSeed]

\* the value loadLocal(...) || loadLegacyLocal() hands to initWorld
storedFor(store, userId) ==
    IF loadLocal(store, userId) # Null THEN loadLocal(store, userId)
    ELSE IF userId = "local" THEN loadLegacyLocal(store)
    ELSE Null

initWorld(store, options, now, id) ==
    With(normalizeInitOptions(options), LAMBDA resolved :
    With(storedFor(store, resolved.userId), LAMBDA stored :
    With(IF stored # Null THEN normalizeWorld(stored, resolved, now, id)
         ELSE createAureliaCore(resolved, now, id), LAMBDA world :
    ensureDerivedState(world, resolved, now, id + coreIds(resolved)))))

(***************************************************************************)
(* The program: the public operations as actions                           *)
(***************************************************************************)
MaxSteps == 4

\* the session starts at noon of its day; what the store holds was written
\* on an earlier day
StartMs == noonOf(3)
EarlierMs == noonOf(1)

JournalInputs == {Str(""), Str("   "), Str("strach boj"), JsNull, JsUndefined}

\* the choices of the decision form; a missing field is undefined
AnswerInputs ==
    { [responsibility |-> "responsibility"], [responsibility |-> "reaction"],
      [truth |-> "truth", facing |-> "escape"],
      [truth |-> "comfort", facing |-> "facing"] }

\* Math.random(): a value below every gate of evaluateReaction, one above them all
Chances == {F(2, 10), F(9, 10)}

InitOptions ==
    { [userId |-> "", planetSeed |-> ""], [userId |-> "u1", planetSeed |-> "Planet_7"] }

WeekKeys == {[week |-> 1]}

NoCall == [op |-> "none", arg |-> Null, threw |-> FALSE, result |-> Null]
Returned(op, arg, result) == [op |-> op, arg |-> arg, threw |-> FALSE, result |-> result]
Threw(op, arg) == [op |-> op, arg |-> arg, threw |-> TRUE, result |-> Null]

\* the fetch syncToCloud starts before its await: the body POSTed to /api/log
syncToCloud(state) == [body |-> buildSafeSnapshot(state), state |-> "pending"]

\* persist(): meta.userId, saveLocal, syncToCloud; saveLocal has no try block,
\* so a setItem that throws ends persist before syncToCloud and reaches the caller
persistThrows == quotaExceeded

persist(state) ==
    LET saved == [state EXCEPT !.meta.userId = activeUserId]
    IN  /\ aurelia' = saved
        /\ IF persistThrows
           THEN UNCHANGED <<localStorage, requests>>
           ELSE /\ localStorage' = saveLocal(localStorage, saved, activeUserId)
                /\ requests' = Append(requests, syncToCloud(saved))

\* how an operation that ends with persist() ends
persisted(op, arg, result) ==
    IF persistThrows THEN Threw(op, arg) ELSE Returned(op, arg, result)

InitWorld(options) ==
    /\ budget > 0
    /\ budget' = budget - 1
    /\ activeUserId' = normalizeInitOptions(options).userId
    /\ aurelia' = initWorld(localStorage, options, clock, nextId)
    /\ nextId' = nextId + coreIds(normalizeInitOptions(options))
    \* the value returned is the entity itself, which aurelia holds
    /\ last' = Returned("initWorld", options, Null)
    /\ UNCHANGED <<localStorage, requests, clock, textVars, rand, quotaExceeded, page>>

\* a non-string argument makes tokenize throw before anything is written
ApplyJournalEntry(txt) ==
    /\ budget > 0
    /\ budget' = budget - 1
    /\ IF aurelia = Null
       THEN /\ last' = Returned("applyJournalEntry", txt, Null)
            /\ UNCHANGED <<aurelia, localStorage, requests, nextId>>
       ELSE IF analyzeTextThrows(txt)
       THEN /\ last' = Threw("applyJournalEntry", txt)
            /\ UNCHANGED <<aurelia, localStorage, requests, nextId>>
       ELSE /\ persist(applyJournalEntry(aurelia, txt, clock, nextId))
            /\ nextId' = nextId + journalIds(aurelia)
            /\ last' = persisted("applyJournalEntry", txt, analyzeText(txt))
    /\ UNCHANGED <<activeUserId, clock, textVars, rand, quotaExceeded, page>>

NeedsDailyQuestion ==
    /\ budget > 0
    /\ budget' = budget - 1
    /\ last' = Returned("needsDailyQuestion", Null,
                        [value |-> aurelia # Null /\ needsDailyQuestion(aurelia, clock)])
    /\ UNCHANGED <<aurelia, activeUserId, localStorage, requests, clock, nextId, textVars, rand, quotaExceeded, page>>

ApplyDailyAnswer(isPositive) ==
    /\ budget > 0
    /\ budget' = budget - 1
    /\ last' = IF aurelia = Null THEN Returned("applyDailyAnswer", [value |-> isPositive], Null)
               ELSE persisted("applyDailyAnswer", [value |-> isPositive], Null)
    /\ IF aurelia = Null
       THEN UNCHANGED <<aurelia, localStorage, requests, nextId>>
       ELSE /\ persist(applyDailyAnswer(aurelia, isPositive, clock, nextId))
            /\ nextId' = nextId + 1
    /\ UNCHANGED <<activeUserId, clock, textVars, rand, quotaExceeded, page>>

SetWeeklySummaryWeek(weekKey) ==
    /\ budget > 0
    /\ budget' = budget - 1
    /\ last' = IF aurelia = Null THEN Returned("setWeeklySummaryWeek", weekKey, Null)
               ELSE persisted("setWeeklySummaryWeek", weekKey, Null)
    /\ IF aurelia = Null
       THEN UNCHANGED <<aurelia, localStorage, requests>>
       ELSE persist(setWeeklySummaryWeek(aurelia, weekKey))
    /\ UNCHANGED <<activeUserId, clock, nextId, textVars, rand, quotaExceeded, page>>

ApplyAnswers(answers) ==
    /\ budget > 0
    /\ budget' = budget - 1
    /\ last' = IF aurelia = Null THEN Returned("applyAnswers", answers, Null)
               ELSE persisted("applyAnswers", answers, Null)
    /\ IF aurelia = Null
       THEN UNCHANGED <<aurelia, localStorage, requests, nextId>>
       ELSE /\ persist(applyAnswers(aurelia, answers, clock, nextId))
            /\ nextId' = nextId + 1
    /\ UNCHANGED <<activeUserId, clock, textVars, rand, quotaExceeded, page>>

\* evaluateReaction(getWorld()): it writes the entity and does not save it
EvaluateReaction(chance) ==
    /\ budget > 0
    /\ aurelia # Null
    /\ budget' = budget - 1
    /\ aurelia' = evaluateReaction(aurelia, chance, clock, nextId)
    /\ nextId' = nextId + reactionIds(aurelia, chance)
    /\ last' = Returned("evaluateReaction", [value |-> chance],
                        [value |-> reactionResult(aurelia, chance)])
    /\ UNCHANGED <<activeUserId, localStorage, requests, clock, textVars, rand, quotaExceeded, page>>

\* midnight passes
DayPasses ==
    /\ budget > 0
    /\ budget' = budget - 1
    /\ clock' = [clock EXCEPT !.day = @ + 1]
    /\ UNCHANGED <<aurelia, activeUserId, localStorage, requests, nextId, last, textVars, rand, quotaExceeded, page>>

(***************************************************************************)
(* What the store can hold when a session starts: entities an earlier      *)
(* session saved, computed by running the operations above                 *)
(***************************************************************************)
LocalUser == [userId |-> "local", planetSeed |-> ""]

\* a run is the entity and the next unused id
FreshRun == [state |-> createAureliaCore(LocalUser, EarlierMs, 1),
             id |-> 1 + coreIds(LocalUser)]

journalStep(run, txt) ==
    [state |-> applyJournalEntry(run.state, txt, EarlierMs, run.id),
     id |-> run.id + journalIds(run.state)]

answerStep(run, isPositive) ==
    [state |-> applyDailyAnswer(run.state, isPositive, EarlierMs, run.id),
     id |-> run.id + 1]

\* n journal entries, by halves: the entity half way is a value before the
\* second half reads it
RECURSIVE journalRun(_, _, _)
journalRun(run, txt, n) ==
    IF n = 0 THEN run
    ELSE IF n = 1 THEN journalStep(run, txt)
    ELSE CHOOSE end \in { journalRun(mid, txt, n - n \div 2) :
                            mid \in {journalRun(run, txt, n \div 2)} } : TRUE

\* the next "yes" commits an imprint that passes 1
atBrink(state) ==
    /\ state.daily.imprint + DAILY_IMPRINT_STEP > ONE
    /\ state.daily.trend + Mul(DAILY_STEP, F(5, 10) + Mul(state.daily.lastIntensity, F(5, 10)))
          >= DAILY_IMPRINT_THRESHOLD

\* "yes" after "yes" up to the brink, at most n of them, by halves
RECURSIVE answerRun(_, _)
answerRun(run, n) ==
    IF n = 1 THEN (IF atBrink(run.state) THEN run ELSE answerStep(run, TRUE))
    ELSE CHOOSE end \in { answerRun(mid, n - n \div 2) :
                            mid \in {answerRun(run, n \div 2)} } : TRUE

\* twelve epochs closed and six entries buffered
EpochVeteran == journalRun(FreshRun, Str("klid bezpeci"), MAX_EPOCHS * EPOCH_SIZE + EPOCH_SIZE - 1)

\* one entry, then yes after yes
ImprintVeteran == answerRun(journalRun(FreshRun, Str("klid bezpeci"), 1), pow2(8))

\* the next "no" takes the trend to the threshold
nayBrink(state) ==
    -state.daily.trend + Mul(DAILY_STEP, F(5, 10) + Mul(state.daily.lastIntensity, F(5, 10)))
        >= DAILY_IMPRINT_THRESHOLD

\* "no" after "no" up to the brink, at most n of them, by halves
RECURSIVE nayRun(_, _)
nayRun(run, n) ==
    IF n = 1 THEN (IF nayBrink(run.state) THEN run ELSE answerStep(run, FALSE))
    ELSE CHOOSE end \in { nayRun(mid, n - n \div 2) :
                            mid \in {nayRun(run, n \div 2)} } : TRUE

\* one dark entry, then no after no: the next "no" commits
NayVeteran == nayRun(journalRun(FreshRun, Str("strach boj"), 1), pow2(4))

\* the ritual answered on one day: "yes" on odd days, "no" on even days
dayStep(run, day) ==
    [state |-> applyDailyAnswer(run.state, day % 2 = 1, noonOf(day), run.id),
     id |-> run.id + 1]

\* the ritual answered on n days in a row from day first, by halves
RECURSIVE dayRun(_, _, _)
dayRun(run, first, n) ==
    IF n = 1 THEN dayStep(run, first)
    ELSE CHOOSE end \in { dayRun(mid, first + n \div 2, n - n \div 2) :
                            mid \in {dayRun(run, first, n \div 2)} } : TRUE

\* a daily log on each of the days 1 .. MAX_DAILY_LOGS
LogVeteran == dayRun(FreshRun, 1, MAX_DAILY_LOGS)

EmptyStore == [key \in {} |-> Unparseable]
EpochStore == saveLocal(EmptyStore, EpochVeteran.state, "local")
NayStore == saveLocal(EmptyStore, NayVeteran.state, "local")
LogStore == saveLocal(EmptyStore, LogVeteran.state, "local")
\* the user's key holds text that does not parse; the legacy key holds an entity
LegacyStore ==
    (buildKey("local") :> Unparseable) @@ (LEGACY_KEY :> JSON_stringify(ImprintVeteran.state))

\* ids are unique across sessions
FirstId == Max(EpochVeteran.id, ImprintVeteran.id)

\* main.js before any event: let ritualTimer = null, no timeout set, the journal
\* form empty and enabled, the daily panel hidden until showDailyQuestion(true)
PageIdle ==
    [ritualTimer |-> Null, timeouts |-> {}, handles |-> 0,
     journalInput |-> [value |-> Str(""), disabled |-> FALSE],
     submitBtn |-> [disabled |-> FALSE],
     dailyPanel |-> [hidden |-> TRUE]]

\* let aurelia = null; let activeUserId = "local"; nothing called, nothing sent
WorldInit ==
    /\ aurelia = Null
    /\ activeUserId = "local"
    /\ requests = <<>>
    /\ quotaExceeded = FALSE
    /\ page = PageIdle
    /\ rand = Null
    /\ clock = StartMs
    /\ nextId = FirstId
    /\ last = NoCall

(***************************************************************************)
(* Specifications                                                          *)
(***************************************************************************)
\* the text analyser, one token per step
TextInit ==
    /\ text \in AnalyzeInputs
    /\ scan = [scanIdle EXCEPT !.pc = "call"]
    /\ signals = NoSignals
    /\ WorldInit
    /\ localStorage = EmptyStore
    /\ budget = 0

TextNext == AnalyzeCall \/ ScanToken \/ AnalyzeReturn

SpecText == TextInit /\ [][TextNext]_vars

\* the module: every public operation, the clock and the network
\* the default user returns to a long-lived entity; any other user is new
Init ==
    /\ TextIdle
    /\ WorldInit
    /\ localStorage = LegacyStore
    /\ budget = MaxSteps

Next ==
    \/ \E options \in InitOptions : InitWorld(options)
    \/ \E txt \in JournalInputs : ApplyJournalEntry(txt)
    \/ NeedsDailyQuestion
    \/ \E isPositive \in BOOLEAN : ApplyDailyAnswer(isPositive)
    \/ \E weekKey \in WeekKeys : SetWeeklySummaryWeek(weekKey)
    \/ \E answers \in AnswerInputs : ApplyAnswers(answers)
    \/ \E chance \in Chances : EvaluateReaction(chance)
    \/ DayPasses

Spec == Init /\ [][Next]_vars

\* journal entries only, long enough for a closure after a closure
MaxEntries == 10
EpochTexts == {Str("klid bezpeci"), Str("strach boj")}
EpochStores == {EmptyStore, EpochStore}

EpochInit ==
    /\ TextIdle
    /\ WorldInit
    /\ localStorage \in EpochStores
    /\ budget = MaxEntries

\* main.js calls initWorld once, when the page has loaded
PageLoad == aurelia = Null /\ InitWorld(LocalUser)

EpochNext ==
    \/ PageLoad
    \/ \E txt \in EpochTexts : ApplyJournalEntry(txt)

SpecEpoch == EpochInit /\ [][EpochNext]_vars

\* the daily ritual: entries and answers over a few days
MaxRitual == 5
RitualTexts == {Str("strach boj"), Str("klid bezpeci")}
RitualStores == {EmptyStore, LegacyStore, NayStore}

RitualInit ==
    /\ TextIdle
    /\ WorldInit
    /\ localStorage \in RitualStores
    /\ budget = MaxRitual

RitualNext ==
    \/ PageLoad
    \/ \E txt \in RitualTexts : ApplyJournalEntry(txt)
    \/ NeedsDailyQuestion
    \/ \E isPositive \in BOOLEAN : ApplyDailyAnswer(isPositive)
    \/ DayPasses

SpecRitual == RitualInit /\ [][RitualNext]_vars

\* the daily logs at their capacity: the session starts on the day after
\* the stored logs' last day
MaxLogSteps == 4
LogTexts == {Str("klid bezpeci")}

LogInit ==
    /\ TextIdle
    /\ aurelia = Null
    /\ activeUserId = "local"
    /\ requests = <<>>
    /\ quotaExceeded = FALSE
    /\ page = PageIdle
    /\ rand = Null
    /\ clock = noonOf(MAX_DAILY_LOGS + 1)
    /\ nextId = LogVeteran.id
    /\ last = NoCall
    /\ localStorage = LogStore
    /\ budget = MaxLogSteps

LogNext ==
    \/ PageLoad
    \/ \E txt \in LogTexts : ApplyJournalEntry(txt)
    \/ \E isPositive \in BOOLEAN : ApplyDailyAnswer(isPositive)
    \/ DayPasses

SpecLogs == LogInit /\ [][LogNext]_vars

\* applyDecay on its own, again and again: each group of scalars starts
\* below, at, just off or above its baselines
MaxDecays == 4
Offsets == {-ONE, -F(1, 10), -1, 0, 1, F(13, 100), ONE}

offsetBy(group, baseline, offset) ==
    [k \in DOMAIN group |->
        IF k \in DOMAIN baseline /\ k # "mood"
        THEN clamp(baseline[k] + offset, 0, ONE) ELSE group[k]]

DecayInit ==
    /\ TextIdle
    /\ activeUserId = "local"
    /\ localStorage = EmptyStore
    /\ requests = <<>>
    /\ quotaExceeded = FALSE
    /\ page = PageIdle
    /\ rand = Null
    /\ clock = StartMs
    /\ nextId = FirstId + coreIds(LocalUser)
    /\ last = NoCall
    /\ budget = MaxDecays
    /\ \E presenceOffset \in Offsets, innerOffset \in Offsets :
          aurelia = [createAureliaCore(LocalUser, StartMs, FirstId) EXCEPT
                        !.presence = offsetBy(@, BASELINE.presence, presenceOffset),
                        !.innerState = offsetBy(@, BASELINE.innerState, innerOffset)]

\* applyDecay(aurelia);
ApplyDecay ==
    /\ budget > 0
    /\ budget' = budget - 1
    /\ aurelia' = applyDecay(aurelia)
    /\ last' = Returned("applyDecay", Null, Null)
    /\ UNCHANGED <<activeUserId, localStorage, requests, clock, nextId, textVars, rand, quotaExceeded, page>>

SpecDecay == DecayInit /\ [][ApplyDecay]_vars

\* deriveMood on its own: values on both sides of every threshold it tests
TensionLevels == {F(2, 10), F(3, 10), F(6, 10), F(62, 100), F(65, 100), F(7, 10)}
FearLevels == {F(7, 10), F(71, 100)}
EntropyLevels == {F(65, 100), F(66, 100)}
CuriosityLevels == {F(6, 10), F(61, 100)}
TrustLevels == {F(65, 100), F(66, 100)}
Moods == {"hostile", "disturbed", "curious", "calm", "observing"}

MoodInit ==
    /\ TextIdle
    /\ activeUserId = "local"
    /\ localStorage = EmptyStore
    /\ requests = <<>>
    /\ quotaExceeded = FALSE
    /\ page = PageIdle
    /\ rand = Null
    /\ clock = StartMs
    /\ nextId = FirstId + coreIds(LocalUser)
    /\ last = NoCall
    /\ budget = 1
    /\ \E tension \in TensionLevels, fear \in FearLevels, entropy \in EntropyLevels,
          curiosity \in CuriosityLevels, trust \in TrustLevels, mood \in Moods :
          aurelia = [createAureliaCore(LocalUser, StartMs, FirstId) EXCEPT
                        !.presence.tension = tension, !.presence.entropy = entropy,
                        !.presence.curiosity = curiosity, !.presence.mood = mood,
                        !.innerState.fear = fear, !.innerState.trust = trust]

\* aurelia.presence.mood = deriveMood(aurelia.presence, aurelia.innerState);
DeriveMood ==
    /\ budget > 0
    /\ budget' = budget - 1
    /\ aurelia' = [aurelia EXCEPT !.presence.mood =
                      deriveMood(aurelia.presence, aurelia.innerState)]
    /\ last' = Returned("deriveMood", Null,
                        [value |-> deriveMood(aurelia.presence, aurelia.innerState)])
    /\ UNCHANGED <<activeUserId, localStorage, requests, clock, nextId, textVars, rand, quotaExceeded, page>>

SpecMood == MoodInit /\ [][DeriveMood]_vars

(***************************************************************************)
(* Properties of the text analyser                                         *)
(***************************************************************************)
returned == scan.pc = "returned"

\* the normalized form of the k-th token of the text under analysis
baseOf(k) == normalizeToken(scan.tokens[k])

isNegation(k) == baseOf(k) \in NEGATIONS

isIntensifier(k) ==
    /\ baseOf(k) # ""
    /\ ~isNegation(k)
    /\ getWeight(INTENSIFIERS, baseOf(k), stemToken(baseOf(k))) # 0

\* the lexicon polarity of the k-th token, 0 when it is no polarity word
polarityOf(k) ==
    IF baseOf(k) = "" \/ isNegation(k) \/ isIntensifier(k) THEN 0
    ELSE rawPolarity(baseOf(k), stemToken(baseOf(k)))

\* the k-th token reaches the theme lookup and is a word of some theme
themed(k) ==
    /\ baseOf(k) # "" /\ ~isNegation(k) /\ ~isIntensifier(k)
    /\ \E set \in {THEMES_conflict, THEMES_stability, THEMES_curiosity} :
           hasTheme(set, baseOf(k), stemToken(baseOf(k)))

\* the loop's locals before the k-th token
localsBefore(k) == IF k = 1 THEN scanStart ELSE scan.trail[k - 1]

\* the k-th token was added to the sum opposite to its lexicon polarity
flipped(k) ==
    /\ k <= Len(scan.trail)
    /\ \/ polarityOf(k) > 0 /\ scan.trail[k].neg > localsBefore(k).neg
       \/ polarityOf(k) < 0 /\ scan.trail[k].pos > localsBefore(k).pos

flippedTokens == { k \in 1..Len(scan.trail) : flipped(k) }

\* C7: a negation word affects at most the token directly after it: the
\* pending-negation flag is clear after that token whatever it is, and a
\* polarity word is flipped only when the token directly before it is a
\* negation word; "bezpeci" in "nejsem v bezpeci" keeps its polarity.
C7_NegationReachesOneToken ==
    /\ \A k \in 2..Len(scan.trail) :
           isNegation(k - 1) => ~scan.trail[k].negateNext
    /\ \A k \in 1..Len(scan.trail) :
           flipped(k) => (k >= 2 /\ isNegation(k - 1))
    /\ (text = Str("nejsem v bezpeci") => flippedTokens = {})

initialised == aurelia # Null

inUnit(value) == 0 <= value /\ value <= ONE
inSigned(value) == -ONE <= value /\ value <= ONE

\* a step that is a call of op (the clock stands still during a call)
called(op) == budget' = budget - 1 /\ clock' = clock /\ last'.op = op

\* C1: after any sequence of public operations on an initialised entity,
\* presence.awareness, tension, entropy, curiosity and innerState.trust, fear,
\* stability, curiosity are all in [0,1]
C1_ScalarsInUnitRange ==
    initialised =>
        /\ \A k \in {"awareness", "tension", "entropy", "curiosity"} :
              inUnit(aurelia.presence[k])
        /\ \A k \in {"trust", "fear", "stability", "curiosity"} :
              inUnit(aurelia.innerState[k])

\* C2: midMemory and longMemory keep conflict, stability, curiosity in [0,1]
\* and sentiment in [-1,1]; daily.trend and daily.imprint stay in [-1,1]
C2_MemoryAndDailyInRange ==
    initialised =>
        /\ \A track \in {aurelia.midMemory, aurelia.longMemory} :
              /\ inUnit(track.conflict)
              /\ inUnit(track.stability)
              /\ inUnit(track.curiosity)
              /\ inSigned(track.sentiment)
        /\ inSigned(aurelia.daily.trend)
        /\ inSigned(aurelia.daily.imprint)

\* a "yes" has just committed an imprint that the range cut off at 1, and the
\* long memory moved with it
C2_Witness ==
    /\ initialised
    /\ last.op = "applyDailyAnswer"
    /\ aurelia.daily.lastImprintAt = Stamp(clock)
    /\ aurelia.daily.imprint = ONE
    /\ aurelia.daily.trend = 0
    /\ aurelia.longMemory.sentiment > 0

blankTexts == {Str(""), Str("   ")}

\* the fields the journal pipeline owns
journalFields ==
    {"presence", "innerState", "midMemory", "longMemory", "geography", "epochBuffer",
     "epochs", "daily", "dailyDraft", "dailyLogs", "memory"}

\* C3: applyJournalEntry on empty or whitespace-only text returns the zero
\* signal and leaves presence, innerState, midMemory, longMemory, geography,
\* epochBuffer, epochs, daily, dailyDraft, dailyLogs and the event log as they were
C3_BlankEntryChangesNothing ==
    [][ (called("applyJournalEntry") /\ last'.arg \in blankTexts /\ initialised)
            => /\ last'.result = emptySignals
               /\ \A field \in journalFields : aurelia'[field] = aurelia[field] ]_vars

\* C4: applyJournalEntry never raises an error: for a non-string as for empty
\* text it returns the zero signal or null
C4_JournalNeverThrows ==
    last.op = "applyJournalEntry" =>
        /\ ~last.threw
        /\ (last.arg \in blankTexts \cup NonStrings
                => last.result \in {emptySignals, Null})


(***************************************************************************)
(* Properties of the epochs                                                *)
(***************************************************************************)
journalCount ==
    Cardinality({k \in DOMAIN aurelia.memory : aurelia.memory[k].type = "journal"})

bufferIsZero(buffer) ==
    /\ buffer.count = 0
    /\ buffer.conflict = 0 /\ buffer.stability = 0
    /\ buffer.curiosity = 0 /\ buffer.sentiment = 0

epochIds(epochs) == { epochs[j].id : j \in 1..Len(epochs) }

journalled == called("applyJournalEntry") /\ initialised /\ ~last'.threw

\* with n entries made so far: count is n modulo 7, one epoch per 7 entries
entriesCounted ==
    initialised =>
        /\ aurelia.epochBuffer.count = journalCount % 7
        /\ Len(aurelia.epochs) = Min(journalCount \div 7, 12)
        /\ (aurelia.epochBuffer.count = 0 => bufferIsZero(aurelia.epochBuffer))

\* the 7th entry closes, the first 6 count
closesOnSeventh ==
    journalled =>
        IF aurelia.epochBuffer.count = 6
        THEN /\ Len(aurelia'.epochs) = Min(Len(aurelia.epochs) + 1, 12)
             /\ aurelia'.epochs[Len(aurelia'.epochs)].id \notin epochIds(aurelia.epochs)
             /\ bufferIsZero(aurelia'.epochBuffer)
        ELSE /\ aurelia'.epochs = aurelia.epochs
             /\ aurelia'.epochBuffer.count = aurelia.epochBuffer.count + 1

\* C5: counting from a fresh entity or from a closure, the 7th
\* applyJournalEntry appends exactly one record to epochs and leaves
\* epochBuffer.count and all buffer sums 0; each of the first 6 leaves epochs
\* unchanged and epochBuffer.count the number of entries since the closure
C5_EpochClosureExact == []entriesCounted /\ [][closesOnSeventh]_vars

\* the 7th entry of a fresh entity has just closed its first epoch
C5_Witness ==
    /\ initialised
    /\ last.op = "applyJournalEntry"
    /\ journalCount = 7
    /\ Len(aurelia.epochs) = 1
    /\ bufferIsZero(aurelia.epochBuffer)

atMostTwelve ==
    initialised =>
        /\ Len(aurelia.epochs) <= 12
        /\ \A j, k \in 1..Len(aurelia.epochs) :
               j # k => aurelia.epochs[j].id # aurelia.epochs[k].id

\* a closure puts the new record last and, at 12 records, drops the first
oldestLeavesFirst ==
    (journalled /\ aurelia.epochBuffer.count = 6) =>
        LET old == aurelia.epochs
            new == aurelia'.epochs
        IN  /\ Len(new) >= 1
            /\ new[Len(new)].id \notin epochIds(old)
            /\ IF Len(old) = 12
               THEN Len(new) = 12 /\ SubSeq(new, 1, 11) = Tail(old)
               ELSE SubSeq(new, 1, Len(new) - 1) = old

\* C6: epochs never holds more than 12 records; a closure at 12 records
\* removes the record closed earliest, the others keep their closure order
\* and the new record is last
C6_EpochsFifoAtMostTwelve == []atMostTwelve /\ [][oldestLeavesFirst]_vars

\* the 13th closure has just happened: 12 records stay
C6_Witness ==
    /\ initialised
    /\ last.op = "applyJournalEntry"
    /\ journalCount = 13 * 7
    /\ Len(aurelia.epochs) = 12
    /\ aurelia.epochs[12].id = uuidOf(nextId - 2)

(***************************************************************************)
(* Properties of the mood                                                  *)
(***************************************************************************)
\* C10: deriveMood is a first-match chain hostile > disturbed > curious >
\* calm > observing: fear > 0.7 and tension > 0.6 gives hostile whatever the
\* curiosity; otherwise tension > 0.65 or entropy > 0.65 gives disturbed;
\* otherwise curiosity > 0.6 gives curious; otherwise trust > 0.65 and
\* tension < 0.3 gives calm; otherwise observing
C10_MoodRuleChain ==
    last.op = "deriveMood" =>
        LET p == aurelia.presence
            i == aurelia.innerState
            mood == last.result.value
            hostile == 10 * i.fear > 7 * ONE /\ 10 * p.tension > 6 * ONE
            disturbed == 100 * p.tension > 65 * ONE \/ 100 * p.entropy > 65 * ONE
            curious == 10 * p.curiosity > 6 * ONE
            calm == 100 * i.trust > 65 * ONE /\ 10 * p.tension < 3 * ONE
        IN  /\ p.mood = mood
            /\ hostile => mood = "hostile"
            /\ (~hostile /\ disturbed) => mood = "disturbed"
            /\ (~hostile /\ ~disturbed /\ curious) => mood = "curious"
            /\ (~hostile /\ ~disturbed /\ ~curious /\ calm) => mood = "calm"
            /\ (~hostile /\ ~disturbed /\ ~curious /\ ~calm) => mood = "observing"

\* curiosity above 0.6 where an earlier rule decides: disturbed wins
C10_Witness ==
    /\ last.op = "deriveMood"
    /\ aurelia.presence.curiosity > F(6, 10)
    /\ aurelia.presence.entropy > F(65, 100)
    /\ aurelia.innerState.fear <= F(7, 10)
    /\ aurelia.presence.mood = "disturbed"


(***************************************************************************)
(* Properties of the mood after the public operations                      *)
(***************************************************************************)
moodWriters == {"applyJournalEntry", "applyDailyAnswer", "applyAnswers", "evaluateReaction"}

\* C11: after applyJournalEntry, applyDailyAnswer, applyAnswers and
\* evaluateReaction, presence.mood is the mood classifier's value for the
\* presence and innerState the operation has left
C11_MoodFollowsState ==
    (initialised /\ last.op \in moodWriters /\ ~last.threw) =>
        aurelia.presence.mood = deriveMood(aurelia.presence, aurelia.innerState)


(***************************************************************************)
(* Properties of the daily ritual                                          *)
(***************************************************************************)
answered == called("applyDailyAnswer") /\ initialised

signOf(value) == IF value > 0 THEN 1 ELSE IF value < 0 THEN -1 ELSE 0

\* the trend after the signed step 0.1 * (0.5 + 0.5 * lastIntensity)
steppedTrend ==
    LET size == (ONE \div 10) * (ONE \div 2 + RoundDiv(Min(ONE, Max(0, aurelia.daily.lastIntensity)), 2))
        step == RoundDiv(size, ONE)
    IN  Max(-ONE, Min(ONE, aurelia.daily.trend
                              + (IF last'.arg.value THEN step ELSE -step)))

\* C12: applyDailyAnswer commits an imprint exactly when |trend| >= 0.8 after
\* the step: trend becomes 0, imprint moves by 0.12 and longMemory.stability,
\* conflict, sentiment by +0.04, -0.03, +0.05 times the trend's sign (clamped);
\* below 0.8 the answer leaves imprint and longMemory unchanged
C12_ImprintAtThreshold ==
    [][ answered =>
          LET sgn == signOf(steppedTrend)
              lm == aurelia.longMemory
          IN  IF 10 * Abs(steppedTrend) >= 8 * ONE
              THEN /\ aurelia'.daily.trend = 0
                   /\ aurelia'.daily.imprint =
                          Max(-ONE, Min(ONE, aurelia.daily.imprint + sgn * ((12 * ONE) \div 100)))
                   /\ aurelia'.longMemory.stability =
                          Max(0, Min(ONE, lm.stability + sgn * ((4 * ONE) \div 100)))
                   /\ aurelia'.longMemory.conflict =
                          Max(0, Min(ONE, lm.conflict - sgn * ((3 * ONE) \div 100)))
                   /\ aurelia'.longMemory.sentiment =
                          Max(-ONE, Min(ONE, lm.sentiment + sgn * ((5 * ONE) \div 100)))
                   /\ aurelia'.longMemory.curiosity = lm.curiosity
              ELSE /\ aurelia'.daily.trend = steppedTrend
                   /\ aurelia'.daily.imprint = aurelia.daily.imprint
                   /\ aurelia'.longMemory = lm ]_vars

\* a "no" has just committed an imprint downwards
C12_Witness ==
    /\ initialised
    /\ last.op = "applyDailyAnswer" /\ last.arg = [value |-> FALSE]
    /\ aurelia.daily.lastImprintAt = Stamp(clock)
    /\ aurelia.daily.trend = 0
    /\ aurelia.daily.imprint = -((12 * ONE) \div 100)


today == getLocalDateKey(clock)

\* C13: one ritual slot per calendar day: applyDailyAnswer on a date whose
\* ritual is already answered (daily.lastQuestionDate is that date) changes
\* none of daily.trend, daily.imprint, presence and innerState
C13_OneAnswerPerDay ==
    [][ (answered /\ aurelia.daily.lastQuestionDate = today) =>
            /\ aurelia'.daily.trend = aurelia.daily.trend
            /\ aurelia'.daily.imprint = aurelia.daily.imprint
            /\ aurelia'.presence = aurelia.presence
            /\ aurelia'.innerState = aurelia.innerState ]_vars


ritualOwed == aurelia.daily.lastQuestionDate # today

typesOf(memory) == [k \in 1..Len(memory) |-> memory[k].type]

\* C14: while today's ritual is unanswered applyJournalEntry stores the entry
\* only as dailyDraft (dailyLogs unchanged) and needsDailyQuestion() stays
\* true; the following applyDailyAnswer on that date writes today's dailyLogs
\* entry with the draft's text and signals; once the ritual is answered
\* applyJournalEntry writes today's entry directly and leaves dailyDraft alone
C14_DraftThenLog ==
    [][ /\ (journalled /\ ritualOwed) =>
              /\ aurelia'.dailyLogs = aurelia.dailyLogs
              /\ aurelia'.dailyDraft =
                     [date |-> today, journalEntry |-> last'.arg, signals |-> last'.result]
              /\ needsDailyQuestion(aurelia', clock')
        /\ (answered /\ aurelia.dailyDraft # Null /\ aurelia.dailyDraft.date = today) =>
              /\ today.day \in DOMAIN aurelia'.dailyLogs
              /\ aurelia'.dailyLogs[today.day].date = today
              /\ aurelia'.dailyLogs[today.day].journalEntry = aurelia.dailyDraft.journalEntry
              /\ aurelia'.dailyLogs[today.day].signals = aurelia.dailyDraft.signals
        /\ (journalled /\ ~ritualOwed) =>
              /\ today.day \in DOMAIN aurelia'.dailyLogs
              /\ aurelia'.dailyLogs[today.day].journalEntry = last'.arg
              /\ aurelia'.dailyLogs[today.day].signals = last'.result
              /\ aurelia'.dailyDraft = aurelia.dailyDraft ]_vars

\* a draft, the answer that logged it, then an entry logged directly
C14_Witness ==
    /\ initialised
    /\ last.op = "applyJournalEntry"
    /\ ~ritualOwed
    /\ typesOf(aurelia.memory) = <<"journal", "daily_answer", "journal">>
    /\ aurelia.memory[1].payload.text # last.arg
    /\ aurelia.dailyLogs[today.day].journalEntry = last.arg
    /\ aurelia.dailyDraft = Null


(***************************************************************************)
(* Properties of the daily logs                                            *)
(***************************************************************************)
logDays(state) == DOMAIN state.dailyLogs

atMostFourHundred == initialised => Cardinality(logDays(aurelia)) <= 400

\* the days a step removes are all earlier than every day it keeps, and a
\* day written later than all stored days is kept
oldestDaysLeave ==
    (initialised /\ aurelia' # Null) =>
        /\ \A gone \in logDays(aurelia) \ logDays(aurelia') :
               \A kept \in logDays(aurelia') : gone < kept
        /\ \A new \in logDays(aurelia') \ logDays(aurelia) : new = getLocalDateKey(clock').day
        /\ ((answered \/ (journalled /\ ~ritualOwed))
                /\ \A stored \in logDays(aurelia) : stored < today.day)
               => today.day \in logDays(aurelia')

\* C15: after any operation that writes a daily log dailyLogs holds at most
\* 400 entries; the entries removed are those with the smallest date keys,
\* never the entry just written for a date later than all stored ones
C15_LogsPrunedOldestFirst == []atMostFourHundred /\ [][oldestDaysLeave]_vars

\* the answer on day 401 has written its log and the log of day 1 is gone
C15_Witness ==
    /\ initialised
    /\ last.op = "applyDailyAnswer"
    /\ Cardinality(logDays(aurelia)) = 400
    /\ today.day \in logDays(aurelia)
    /\ today.day = 401
    /\ 1 \notin logDays(aurelia)


(***************************************************************************)
(* Properties of the decay                                                 *)
(***************************************************************************)
presenceScalars == {"awareness", "tension", "entropy", "curiosity"}
innerScalars == {"trust", "fear", "stability", "curiosity"}

\* new is between old and the baseline, and at the baseline if old is
towardBaseline(new, old, baseline) ==
    /\ old >= baseline => (baseline <= new /\ new <= old)
    /\ old <= baseline => (old <= new /\ new <= baseline)

\* C16: each decay step leaves every tracked scalar between its previous
\* value and its baseline, never on the other side of the baseline, and a
\* scalar at its baseline stays there
C16_DecayTowardBaseline ==
    [][ called("applyDecay") =>
          /\ \A k \in presenceScalars :
                towardBaseline(aurelia'.presence[k], aurelia.presence[k],
                               BASELINE.presence[k])
          /\ \A k \in innerScalars :
                towardBaseline(aurelia'.innerState[k], aurelia.innerState[k],
                               BASELINE.innerState[k]) ]_vars

\* two decays on: tension still above its baseline, trust still below
C16_Witness ==
    /\ last.op = "applyDecay"
    /\ budget + 2 <= MaxDecays
    /\ aurelia.presence.tension > BASELINE.presence.tension
    /\ aurelia.presence.tension < ONE
    /\ aurelia.innerState.trust < BASELINE.innerState.trust
    /\ aurelia.innerState.trust > 0

(***************************************************************************)
(* Properties of the identity                                              *)
(***************************************************************************)
MaxReloads == 3
PlanetSeeds == {"", "Planet_7", "Planet_9"}
\* initWorld({ userId, planetSeed }) for the default user and a signed-in one
ReloadOptions == { [userId |-> u, planetSeed |-> p] : u \in {"", "u1"}, p \in PlanetSeeds }

\* a device that holds a saved entity of the default user, and one that holds none
IdentityStores == {LegacyStore, EmptyStore}

IdentityInit ==
    /\ TextIdle
    /\ WorldInit
    /\ localStorage \in IdentityStores
    /\ budget = MaxReloads

IdentityNext ==
    \/ \E options \in ReloadOptions : InitWorld(options)
    \/ ApplyJournalEntry(Str("strach boj"))
    \/ \E isPositive \in BOOLEAN : ApplyDailyAnswer(isPositive)
    \/ ApplyAnswers([truth |-> "truth", facing |-> "escape"])
    \/ \E chance \in Chances : EvaluateReaction(chance)

SpecIdentity == IdentityInit /\ [][IdentityNext]_vars

\* the saved state initWorld(options) would read, null when there is none
savedFor(options) == storedFor(localStorage, normalizeInitOptions(options).userId)

\* a reload of the user in memory, whose state has been saved
reloadsSameUser ==
    /\ initialised
    /\ called("initWorld")
    /\ normalizeInitOptions(last'.arg).userId = activeUserId
    /\ savedFor(last'.arg) # Null

identityKept == aurelia'.identity = aurelia.identity

\* C17: no applyJournalEntry, applyDailyAnswer, applyAnswers or
\* evaluateReaction, and no reload of a user's saved state through initWorld
\* with any planet seed, changes identity.seed, seedA, seedB, paletteBias,
\* ringTilt or cloudSeed: the operations keep the identity of the entity in
\* memory, and a reload yields the identity of the saved state
C17_IdentityImmutable ==
    [][/\ (initialised /\ \E op \in moodWriters : called(op)) => identityKept
       /\ reloadsSameUser => identityKept
       /\ (called("initWorld") /\ savedFor(last'.arg) # Null)
            => aurelia'.identity = savedFor(last'.arg).identity]_vars

\* the signed-in user's saved state is reloaded under another planet seed
C17_Witness ==
    /\ initialised
    /\ last.op = "initWorld"
    /\ last.arg = [userId |-> "u1", planetSeed |-> "Planet_9"]
    /\ loadLocal(localStorage, "u1") # Null
    /\ aurelia.identity.seed = "Planet_7"


\* planetSeed || userId for the options initWorld was given
seedStringOf(options) ==
    With(normalizeInitOptions(options), LAMBDA resolved :
        IF resolved.planetSeed # "" THEN resolved.planetSeed ELSE resolved.userId)

\* the identity of the entity initWorld(options) creates where nothing is stored,
\* in a session whose clock reads now and whose next random token is id
freshIdentity(options, now, id) == initWorld(EmptyStore, options, now, id).identity

\* the five draws of an identity, from nothing but its seed string
drawnFrom(seed) ==
    With(codeUnits(seed), LAMBDA units :
        [seed |-> seed,
         seedA |-> randDraw(units, 1),
         seedB |-> randDraw(units, 2),
         paletteBias |-> 2 * randDraw(units, 3) - ONE,
         ringTilt |-> 2 * randDraw(units, 4) - ONE,
         cloudSeed |-> randDraw(units, 5)])

inHalfOpenUnit(value) == 0 <= value /\ value < ONE
inHalfOpenSigned(value) == -ONE <= value /\ value < ONE

identityInRange(identity) ==
    /\ inHalfOpenUnit(identity.seedA)
    /\ inHalfOpenUnit(identity.seedB)
    /\ inHalfOpenUnit(identity.cloudSeed)
    /\ inHalfOpenSigned(identity.paletteBias)
    /\ inHalfOpenSigned(identity.ringTilt)

\* C18: the identity is a function of its seed string, which is the planet
\* seed if one is given and the user id otherwise: an entity created with
\* nothing stored has that seed and the identity any user's fresh entity of
\* the same seed string has in another session, every identity is the five
\* draws of its seed, and seedA, seedB, cloudSeed are in [0,1), paletteBias
\* and ringTilt in [-1,1)
C18_IdentityFromSeed ==
    /\ initialised =>
        /\ aurelia.identity = drawnFrom(aurelia.identity.seed)
        /\ identityInRange(aurelia.identity)
    /\ (initialised /\ last.op = "initWorld" /\ savedFor(last.arg) = Null) =>
        /\ aurelia.identity.seed = seedStringOf(last.arg)
        /\ \A other \in ReloadOptions :
            seedStringOf(other) = seedStringOf(last.arg) =>
                aurelia.identity = freshIdentity(other, StartMs, FirstId)

\* the default user, with nothing stored, is created under the planet seed the
\* signed-in user was created under earlier in the run
C18_Witness ==
    /\ initialised
    /\ last.op = "initWorld"
    /\ last.arg = [userId |-> "", planetSeed |-> "Planet_7"]
    /\ savedFor(last.arg) = Null
    /\ nextId > FirstId + coreIds(LocalUser)
    /\ aurelia.identity = freshIdentity([userId |-> "u1", planetSeed |-> "Planet_7"], StartMs, FirstId)

(***************************************************************************)
(* Properties of the seeded generator                                      *)
(***************************************************************************)
MaxSeedLen == 3
MaxDraws == 3
\* code units of "7", "a" and of a letter outside ASCII (U+0159)
SeedUnits == {55, 97, 345}

RECURSIVE seedsOfLength(_)
seedsOfLength(n) ==
    IF n = 0 THEN {<<>>}
    ELSE { Append(seed, unit) : seed \in seedsOfLength(n - 1), unit \in SeedUnits }

Seeds == UNION { seedsOfLength(n) : n \in 0..MaxSeedLen }

RandInit ==
    /\ TextIdle
    /\ WorldInit
    /\ localStorage = EmptyStore
    /\ budget = MaxDraws

\* const rand = seededRandom(seed);
SeededRandom(seed) ==
    /\ rand = Null
    /\ rand' = [seed |-> seed, h |-> seedHash(seed), draws |-> 0, word |-> Null, value |-> Null]
    /\ UNCHANGED <<aurelia, activeUserId, localStorage, requests, clock, nextId, last,
                   budget, textVars, quotaExceeded, page>>

\* the generator after one more rand(): its h, and the value returned
drawOnce(generator) ==
    With(randAdvance(generator.h), LAMBDA h :
    With(randMix(h), LAMBDA word :
        [generator EXCEPT !.h = h, !.draws = @ + 1, !.word = word,
                          !.value = unitOf(word)]))

\* rand()
Rand ==
    /\ rand # Null
    /\ budget > 0
    /\ budget' = budget - 1
    /\ rand' = drawOnce(rand)
    /\ UNCHANGED <<aurelia, activeUserId, localStorage, requests, clock, nextId, last,
                   textVars, quotaExceeded, page>>

RandNext == (\E seed \in Seeds : SeededRandom(seed)) \/ Rand

SpecRandom == RandInit /\ [][RandNext]_vars

\* The reference generator: unsigned 32-bit words as four bytes, lowest first,
\* every operation modulo 2^32
REF_OFFSET == <<197, 157, 28, 129>>     \* 2166136261 = 0x811C9DC5
REF_PRIME == <<147, 1, 0, 1>>           \* 16777619 = 0x01000193
REF_STEP == <<245, 121, 43, 109>>       \* 0x6D2B79F5

refOfSmall(n) == <<n % 256, (n \div 256) % 256, 0, 0>>

refXor(a, b) == [i \in 1..4 |-> xorBits(a[i], b[i], 8)]
refOr(a, b) == [i \in 1..4 |-> orBits(a[i], b[i], 8)]

refAdd(a, b) ==
    LET s1 == a[1] + b[1]
        s2 == a[2] + b[2] + (s1 \div 256)
        s3 == a[3] + b[3] + (s2 \div 256)
        s4 == a[4] + b[4] + (s3 \div 256)
    IN  <<s1 % 256, s2 % 256, s3 % 256, s4 % 256>>

refMul(a, b) ==
    LET c1 == a[1] * b[1]
        c2 == a[1] * b[2] + a[2] * b[1] + (c1 \div 256)
        c3 == a[1] * b[3] + a[2] * b[2] + a[3] * b[1] + (c2 \div 256)
        c4 == a[1] * b[4] + a[2] * b[3] + a[3] * b[2] + a[4] * b[1] + (c3 \div 256)
    IN  <<c1 % 256, c2 % 256, c3 % 256, c4 % 256>>

\* a >> k, 0 <= k < 32
refShr(a, k) ==
    LET q == k \div 8
        r == k % 8
        byte(i) == IF i > 4 THEN 0 ELSE a[i]
    IN  [i \in 1..4 |-> (byte(i + q) \div pow2(r)) + (byte(i + q + 1) % pow2(r)) * pow2(8 - r)]

\* h = (h XOR byte) * 16777619 over the first n bytes
RECURSIVE refFold(_, _)
refFold(bytes, n) ==
    IF n = 0 THEN REF_OFFSET
    ELSE With(refFold(bytes, n - 1), LAMBDA h :
            refMul(refXor(h, refOfSmall(bytes[n])), REF_PRIME))

\* h after the n-th draw
RECURSIVE refState(_, _)
refState(bytes, n) ==
    IF n = 0 THEN refFold(bytes, Len(bytes))
    ELSE With(refState(bytes, n - 1), LAMBDA h : refAdd(h, REF_STEP))

\* t = (h ^ (h>>>15)) * (1|h); t ^= t + (t ^ (t>>>7)) * (61|t); t ^ (t>>>14)
refMix(h) ==
    With(refMul(refXor(h, refShr(h, 15)), refOr(refOfSmall(1), h)), LAMBDA t1 :
    With(refXor(t1, refAdd(t1, refMul(refXor(t1, refShr(t1, 7)),
                                      refOr(refOfSmall(61), t1)))), LAMBDA t2 :
        refXor(t2, refShr(t2, 14))))

refDraw(bytes, n) == With(refState(bytes, n), LAMBDA h : refMix(h))

\* the reference's word as the model writes 32-bit words
wordOfRef(ref) == U32(ref[4] * 256 + ref[3], ref[2] * 256 + ref[1])

\* the UTF-8 bytes of a string of code units below the surrogates
RECURSIVE utf8Bytes(_)
utf8Bytes(units) ==
    IF Len(units) = 0 THEN <<>>
    ELSE LET unit == units[1]
         IN  (IF unit < 128 THEN <<unit>>
              ELSE IF unit < 2048 THEN <<192 + (unit \div 64), 128 + (unit % 64)>>
              ELSE <<224 + (unit \div 4096), 128 + ((unit \div 64) % 64), 128 + (unit % 64)>>)
                \o utf8Bytes(Tail(units))

drawn == rand # Null /\ rand.draws > 0

isAscii(units) == \A i \in 1..Len(units) : units[i] < 128

MaxSync == 3
SyncTexts == {Str("strach boj")}
SyncAnswers == {[truth |-> "truth", facing |-> "escape"]}
\* the ways the promise of fetch ends; one that never ends stays "pending"
Outcomes == {"fulfilled", "rejected"}

\* the payload built when the request completes, from the state of that moment
fetchSettledRebuilding(queue, i, outcome) ==
    [queue EXCEPT ![i].state = outcome, ![i].body = buildSafeSnapshot(aurelia)]

\* a rejected fetch is sent once more
fetchSettledRetrying(queue, i, outcome) ==
    IF outcome = "rejected"
    THEN Append([queue EXCEPT ![i].state = outcome], [queue[i] EXCEPT !.state = "pending"])
    ELSE [queue EXCEPT ![i].state = outcome]

\* try { await fetch(...) } catch (error) { }: nothing follows the await
fetchSettled(queue, i, outcome) == [queue EXCEPT ![i].state = outcome]

\* the promise of the i-th fetch is fulfilled or rejected
FetchSettles(i, outcome) ==
    /\ requests[i].state = "pending"
    /\ requests' = fetchSettled(requests, i, outcome)
    /\ UNCHANGED <<aurelia, activeUserId, localStorage, clock, nextId, last, budget,
                   textVars, rand, quotaExceeded, page>>

SyncInit ==
    /\ TextIdle
    /\ WorldInit
    /\ localStorage = EmptyStore
    /\ budget = MaxSync

SyncNext ==
    \/ PageLoad
    \/ \E txt \in SyncTexts : ApplyJournalEntry(txt)
    \/ \E isPositive \in BOOLEAN : ApplyDailyAnswer(isPositive)
    \/ \E weekKey \in WeekKeys : SetWeeklySummaryWeek(weekKey)
    \/ \E answers \in SyncAnswers : ApplyAnswers(answers)
    \/ \E i \in DOMAIN requests, outcome \in Outcomes : FetchSettles(i, outcome)

SpecSync == SyncInit /\ [][SyncNext]_vars

\* a public operation has been called and has returned or thrown
operated == budget' = budget - 1

\* the fetches so far are as they were: none settled, none sent again
sentBefore == SubSeq(requests', 1, Len(requests)) = requests

\* a step in which only a promise changes state
settled == budget' = budget /\ requests' # requests

\* of the fetches one is rejected and none is fulfilled
allSendsFail ==
    /\ \E i \in DOMAIN requests : requests[i].state = "rejected"
    /\ \A i \in DOMAIN requests : requests[i].state # "fulfilled"

\* C20: the outbound sync is fire-and-forget: an operation sends at most one
\* request, leaves the earlier ones alone and returns with its own request
\* pending; a request that fails or completes raises nothing, writes no local
\* state and is not sent again; and with every earlier request failed or
\* pending an operation on the entity is still applied, saved and sent
C20_SyncFireAndForget ==
    [][/\ operated =>
            /\ Len(requests') <= Len(requests) + 1
            /\ sentBefore
            /\ Len(requests') > Len(requests) =>
                  /\ requests'[Len(requests')].state = "pending"
                  /\ ~last'.threw
       /\ settled =>
            /\ Len(requests') = Len(requests)
            /\ UNCHANGED <<aurelia, localStorage, activeUserId, last>>
       /\ (operated /\ initialised) =>
            /\ ~last'.threw
            /\ IF last'.op = "setWeeklySummaryWeek"
               THEN aurelia'.daily.lastSummaryWeek = last'.arg
               ELSE aurelia' # aurelia
            /\ loadLocal(localStorage', activeUserId) = aurelia'
            /\ Len(requests') = Len(requests) + 1]_vars

\* an operation has been applied and sent after the request before it failed,
\* and its own request is still pending
C20_Witness ==
    /\ initialised
    /\ Len(requests) = 2
    /\ requests[1].state = "rejected"
    /\ requests[2].state = "pending"
    /\ last.op = "applyJournalEntry"
    /\ budget = 0

(***************************************************************************)
(* Properties of saving                                                    *)
(***************************************************************************)
MaxSaves == 3

\* the browser's store fills up, or room is made in it
QuotaChanges ==
    /\ quotaExceeded' = ~quotaExceeded
    /\ UNCHANGED <<aurelia, activeUserId, localStorage, requests, clock, nextId, last,
                   budget, textVars, rand, page>>

SaveInit ==
    /\ TextIdle
    /\ WorldInit
    /\ localStorage = EmptyStore
    /\ budget = MaxSaves

SaveNext ==
    \/ PageLoad
    \/ \E txt \in SyncTexts : ApplyJournalEntry(txt)
    \/ \E isPositive \in BOOLEAN : ApplyDailyAnswer(isPositive)
    \/ \E weekKey \in WeekKeys : SetWeeklySummaryWeek(weekKey)
    \/ \E answers \in SyncAnswers : ApplyAnswers(answers)
    \/ QuotaChanges

SpecSave == SaveInit /\ [][SaveNext]_vars

\* C21: a saveLocal that fails during a mutating operation is swallowed: the
\* operation returns normally, the entity in memory has the mutation, and the
\* sync step still runs
C21_SaveFailureSwallowed ==
    [][(operated /\ initialised /\ quotaExceeded) =>
            /\ ~last'.threw
            /\ Len(requests') = Len(requests) + 1]_vars

(***************************************************************************)
(* Properties of the sync payload                                          *)
(***************************************************************************)
\* another text of the same length
otherText(txt) == JsString([i \in 1..Len(txt.chars) |-> "x"])

\* the entity with every journal text replaced by another of its length: the
\* events' payload.text, the logs' journalEntry and the draft's journalEntry
retexted(state) ==
    LET memory == state.memory
        logs == state.dailyLogs
        draft == state.dailyDraft
    IN  [state EXCEPT
            !.memory = [i \in DOMAIN memory |->
                IF memory[i].type = "journal"
                THEN [memory[i] EXCEPT !.payload.text = otherText(@)]
                ELSE memory[i]],
            !.dailyLogs = [d \in DOMAIN logs |->
                [logs[d] EXCEPT !.journalEntry = otherText(@)]],
            !.dailyDraft = IF draft = Null THEN Null
                           ELSE [draft EXCEPT !.journalEntry = otherText(@)]]

\* C22: the sync payload carries no raw journal text: an entity and the one
\* that differs from it only in the text of its journal events, logs and
\* draft, with the same lengths and signals, have the same buildSafeSnapshot
C22_PayloadHidesText ==
    initialised => buildSafeSnapshot(retexted(aurelia)) = buildSafeSnapshot(aurelia)

\* the latest event is a journal entry that is also in today's log, the two
\* entities differ, and the payload has been sent
C22_Witness ==
    /\ initialised
    /\ Len(aurelia.memory) > 0
    /\ aurelia.memory[Len(aurelia.memory)].type = "journal"
    /\ today.day \in logDays(aurelia)
    /\ Len(aurelia.dailyLogs[today.day].journalEntry.chars) > 0
    /\ retexted(aurelia) # aurelia
    /\ Len(requests) > 0
    /\ requests[Len(requests)].body = buildSafeSnapshot(retexted(aurelia))

(***************************************************************************)
(* Properties of loading                                                   *)
(***************************************************************************)
MaxLoadSteps == 3
Subsections ==
    {"presence", "innerState", "laws", "drives", "perception", "thresholds", "conflicts",
     "midMemory", "longMemory", "geography", "identity", "daily", "dailyLogs",
     "dailyDraft", "epochs", "epochBuffer", "memory"}

\* a saved entity with journal entries, answers, logs and an imprint
SavedBlob == NayVeteran.state

\* an object that is no draft: {"unexpected": true}
MalformedDraft == [unexpected |-> TRUE]

without(blob, keys) == [k \in DOMAIN blob \ keys |-> blob[k]]

\* the saved entity, whole; with one subsection deleted; with all of them
\* deleted; with a dailyDraft that is not a draft
LoadBlobs ==
    {SavedBlob, without(SavedBlob, Subsections)}
        \cup { without(SavedBlob, {k}) : k \in Subsections }
        \cup { [k \in DOMAIN SavedBlob |->
                  IF k = "dailyDraft" THEN MalformedDraft ELSE SavedBlob[k]] }

LoadInit ==
    /\ TextIdle
    /\ WorldInit
    /\ \E blob \in LoadBlobs : localStorage = saveLocal(EmptyStore, blob, "local")
    /\ budget = MaxLoadSteps

LoadNext ==
    \/ PageLoad
    \/ \E txt \in SyncTexts : ApplyJournalEntry(txt)
    \/ \E isPositive \in BOOLEAN : ApplyDailyAnswer(isPositive)

SpecLoad == LoadInit /\ [][LoadNext]_vars

\* the subsection is not in the blob, or is there and is not of its form
defaulted(blob, k) ==
    \/ k \notin DOMAIN blob
    \/ k = "dailyDraft" /\ blob[k] = MalformedDraft

\* C23: loading defaults each subsection independently: initWorld completes
\* without error, each missing or malformed subsection of the stored blob has
\* the value a fresh entity has, and every other subsection has its stored
\* value
C23_SubsectionsDefaulted ==
    [][(called("initWorld") /\ savedFor(last'.arg) # Null) =>
          /\ ~last'.threw
          /\ \A k \in Subsections :
                aurelia'[k] =
                    IF defaulted(savedFor(last'.arg), k)
                    THEN createAureliaCore(normalizeInitOptions(last'.arg), clock, nextId)[k]
                    ELSE savedFor(last'.arg)[k]]_vars


\* the entity initWorld returns for the active user from the blob saveLocal
\* writes for state; the entities the operations build hold no undefined and
\* no NaN, which are all JSON.stringify would drop or replace
roundTrip(state) ==
    initWorld(saveLocal(EmptyStore, state, activeUserId),
              [userId |-> activeUserId, planetSeed |-> ""], clock, nextId)

contributions(sig) ==
    [presence |->
        [awareness |-> Mul(sig.intensity, F(5, 100)),
         tension |-> Mul(sig.intensity, Mul(sig.conflict, F(22, 100))
                                          + Mul(Max(0, -sig.sentiment), F(8, 100))),
         entropy |-> Mul(Mul(sig.intensity, ONE - sig.stability), F(18, 100)),
         curiosity |-> Mul(Mul(sig.intensity, sig.curiosity), F(22, 100))],
     innerState |->
        [fear |-> Mul(Mul(Max(0, -sig.sentiment), sig.intensity), F(25, 100)),
         trust |-> Mul(Mul(Max(0, sig.sentiment), sig.intensity), F(25, 100)),
         stability |-> Mul(Mul(sig.stability - sig.conflict, sig.intensity), F(25, 100)),
         curiosity |-> Mul(Mul(sig.intensity, sig.curiosity), F(12, 100))]]

\* one decay step toward the baseline, then the contribution, then the clamp
decayedThenMoved(old, baseline, delta) ==
    clamp(baseline + Mul(old - baseline, DECAY_RATE) + delta, 0, ONE)

journalApplied == initialised /\ called("applyJournalEntry") /\ last'.result # Null

\* C25: within one applyJournalEntry the decay is applied exactly once to
\* each tracked scalar of presence and innerState and before the entry's
\* contribution: each new value is
\* clamp(baseline + (old - baseline) * 0.92 + delta, 0, 1)
C25_DecayOnceBeforeDeltas ==
    [][journalApplied =>
        With(contributions(fixedSignals(last'.result)), LAMBDA delta :
            \A section \in {"presence", "innerState"} :
                \A scalar \in DOMAIN delta[section] :
                    aurelia'[section][scalar] =
                        decayedThenMoved(aurelia[section][scalar],
                                         BASELINE[section][scalar],
                                         delta[section][scalar]))]_vars

\* an entry with a contribution has been applied to scalars that were off
\* their baselines
C25_Witness ==
    /\ initialised
    /\ last.op = "applyJournalEntry"
    /\ last.result # Null
    /\ last.result # emptySignals
    /\ Cardinality({ i \in DOMAIN aurelia.memory : aurelia.memory[i].type = "journal" }) >= 2
    /\ aurelia.presence.tension > BASELINE.presence.tension

(***************************************************************************)
(* Properties of the geography                                             *)
(***************************************************************************)
\* the intensities an operation on the given entity may ease with: that of
\* the signals it returned, and the one remembered for the daily question
easingIntensities(before, op, result) ==
    {clamp(before.daily.lastIntensity, 0, ONE)}
        \cup (IF op = "applyJournalEntry" THEN {fixedSignals(result).intensity} ELSE {})

\* the geography after is one easing step from the geography before, toward
\* the target of the long memory after
easedOnce(before, after, intensity) ==
    after.geography =
        updateGeography([before EXCEPT !.longMemory = after.longMemory,
                                       !.identity = after.identity], intensity).geography

longMemoryChanges == initialised /\ aurelia' # Null /\ aurelia'.longMemory # aurelia.longMemory

\* C26: every operation that changes longMemory also moves the geography one
\* easing step toward its target within the same operation, for the journal
\* entry and for the imprint nudge inside applyDailyAnswer
C26_GeographyFollowsLongMemory ==
    [][longMemoryChanges =>
        \E intensity \in easingIntensities(aurelia, last'.op, last'.result) :
            easedOnce(aurelia, aurelia', intensity)]_vars


\* a saved entity whose geography is still the baseline pair, the value
\* ensureDerivedState looks for when it decides to derive the geography
UnderivedStore ==
    saveLocal(EmptyStore, [NayVeteran.state EXCEPT !.geography = BASELINE.geography], "local")

MaxGeoSteps == 3
GeographyStores == {EmptyStore, NayStore, UnderivedStore}

GeographyInit ==
    /\ TextIdle
    /\ WorldInit
    /\ localStorage \in GeographyStores
    /\ budget = MaxGeoSteps

GeographyNext ==
    \/ PageLoad
    \/ \E txt \in RitualTexts : ApplyJournalEntry(txt)
    \/ \E isPositive \in BOOLEAN : ApplyDailyAnswer(isPositive)

SpecGeography == GeographyInit /\ [][GeographyNext]_vars

\* the geography an operation starts from: the entity's, or on loading the
\* stored one when the stored entity has one
hasGeographyBefore ==
    IF initialised THEN TRUE
    ELSE With(storedFor(localStorage, activeUserId'), LAMBDA stored :
            stored # Null /\ "geography" \in DOMAIN stored /\ hasSeeds(stored.geography))

geographyBefore ==
    IF initialised THEN aurelia.geography
    ELSE storedFor(localStorage, activeUserId').geography

\* the rates of one easing step: clamp(0.006 + 0.03 * intensity, 0.006, 0.05)
easingRates == { clamp(F(6, 1000) + Mul(intensity, F(3, 100)), F(6, 1000), F(5, 100)) :
                    intensity \in 0..ONE }

inUnitInterval(value) == 0 <= value /\ value < ONE

\* C27: geography never jumps: every change of geography.seedA or seedB, by
\* any operation or by loading, is a single linear-interpolation step
\* current + (target - current) * rate toward the target derived from
\* longMemory and identity, with rate in [0.006, 0.05], so a step changes each
\* coordinate by at most 0.05 and both stay in [0,1); the target is never
\* assigned directly
C27_GeographyNeverJumps ==
    [][(aurelia' # Null /\ hasGeographyBefore /\ aurelia'.geography # geographyBefore) =>
        With(deriveGeography(aurelia'.longMemory, aurelia'.identity), LAMBDA target :
            /\ \E rate \in easingRates :
                 /\ aurelia'.geography.seedA = lerp(geographyBefore.seedA, target.seedA, rate)
                 /\ aurelia'.geography.seedB = lerp(geographyBefore.seedB, target.seedB, rate)
            /\ Abs(aurelia'.geography.seedA - geographyBefore.seedA) <= F(5, 100)
            /\ Abs(aurelia'.geography.seedB - geographyBefore.seedB) <= F(5, 100)
            /\ inUnitInterval(aurelia'.geography.seedA)
            /\ inUnitInterval(aurelia'.geography.seedB))]_vars


(***************************************************************************)
(* Properties of the epoch seeds                                           *)
(***************************************************************************)
\* an entity saved with one closed epoch, and the same entity as a version
\* that wrote no seeds into its epochs would have saved it
OneEpochVeteran == journalRun(FreshRun, Str("klid bezpeci"), EPOCH_SIZE + 1)

seedless(state) ==
    [state EXCEPT !.epochs = [i \in DOMAIN @ |-> without(@[i], {"seedA", "seedB"})]]

SeedlessStore == saveLocal(EmptyStore, seedless(OneEpochVeteran.state), "local")
SeededStore == saveLocal(EmptyStore, OneEpochVeteran.state, "local")

MaxBackfill == 4
BackfillStores == {SeedlessStore, SeededStore}

BackfillInit ==
    /\ TextIdle
    /\ WorldInit
    /\ localStorage \in BackfillStores
    /\ budget = MaxBackfill

\* the page is loaded, and loaded again, at whatever time the clock shows
BackfillNext ==
    \/ InitWorld(LocalUser)
    \/ DayPasses
    \/ \E txt \in EpochTexts : ApplyJournalEntry(txt)

SpecBackfill == BackfillInit /\ [][BackfillNext]_vars

seedsOf(epoch) == [seedA |-> epoch.seedA, seedB |-> epoch.seedB]

loadsAgain == initialised /\ last'.op = "initWorld" /\ budget' = budget - 1
                /\ savedFor(LocalUser) # Null

\* C28: backfilling missing epoch seeds on load is idempotent: the seeds
\* recomputed for a stored epoch that lacks them are the same on every load
\* of the same stored state, whatever the time of the load, and a load never
\* changes seeds that are stored
C28_BackfillIdempotent ==
    [][loadsAgain =>
        With(savedFor(LocalUser).epochs, LAMBDA stored :
            \A i \in DOMAIN stored :
                IF hasSeeds(stored[i])
                THEN seedsOf(aurelia'.epochs[i]) = seedsOf(stored[i])
                ELSE (i \in DOMAIN aurelia.epochs /\ aurelia.epochs[i].id = stored[i].id)
                        => seedsOf(aurelia'.epochs[i]) = seedsOf(aurelia.epochs[i]))]_vars


\* C29: the index mixed into an epoch's seeds increases over closures: each
\* closed epoch uses a strictly larger index than every epoch closed before
\* it, also once epochs holds 12 records and evictions have started;
\* a closure uses the index of the state it starts from, so the index of the
\* closure that follows is the one of the state this closure leaves, as long
\* as nothing but a closure changes it
C29_EpochIndexIncreases ==
    [][IF journalled /\ closesEpoch(aurelia)
       THEN epochIndex(aurelia') > epochIndex(aurelia)
       ELSE (initialised /\ aurelia' # Null) => epochIndex(aurelia') = epochIndex(aurelia)]_vars


\* the signals of the journal entries in the event log, oldest first
isJournal(event) == event.type = "journal"

journalSignals(memory) ==
    With(SelectSeq(memory, isJournal), LAMBDA entries :
        [k \in DOMAIN entries |-> fixedSignals(entries[k].payload.signals)])

lastEntries(signalsSeq, n) == SubSeq(signalsSeq, Len(signalsSeq) - n + 1, Len(signalsSeq))

RECURSIVE sumOf(_, _)
sumOf(signalsSeq, field) ==
    IF signalsSeq = <<>> THEN 0
    ELSE Head(signalsSeq)[field] + sumOf(Tail(signalsSeq), field)

meanOf(signalsSeq, field) == RoundDiv(sumOf(signalsSeq, field), Len(signalsSeq))

epochAppended ==
    /\ journalled
    /\ aurelia'.epochs # <<>>
    /\ aurelia'.epochs[Len(aurelia'.epochs)].id \notin epochIds(aurelia.epochs)

\* C30: the conflict, stability, curiosity and sentiment of a closed epoch
\* record are the arithmetic means of the theme weights and sentiments of
\* exactly the 7 journal entries made since the previous closure, conflict,
\* stability and curiosity within [0,1] and sentiment within [-1,1]; earlier
\* entries contribute nothing
C30_EpochIsMeanOfSeven ==
    [][epochAppended =>
        With(aurelia'.epochs[Len(aurelia'.epochs)], LAMBDA epoch :
        With(lastEntries(journalSignals(aurelia'.memory), EPOCH_SIZE), LAMBDA seven :
            /\ aurelia.epochBuffer.count = EPOCH_SIZE - 1
            /\ \A field \in {"conflict", "stability", "curiosity", "sentiment"} :
                   epoch[field] = meanOf(seven, field)
            /\ \A field \in {"conflict", "stability", "curiosity"} :
                   0 <= epoch[field] /\ epoch[field] <= ONE
            /\ -ONE <= epoch.sentiment /\ epoch.sentiment <= ONE))]_vars

\* an epoch has just been closed over entries of both texts, after an
\* earlier closure
C30_Witness ==
    /\ initialised
    /\ last.op = "applyJournalEntry"
    /\ aurelia.epochBuffer.count = 0
    /\ journalCount > EPOCH_SIZE
    /\ With(lastEntries(journalSignals(aurelia.memory), EPOCH_SIZE), LAMBDA seven :
          /\ \E j, k \in DOMAIN seven : seven[j] # seven[k]
          /\ aurelia.epochs[Len(aurelia.epochs)].conflict = meanOf(seven, "conflict")
          /\ aurelia.epochs[Len(aurelia.epochs)].conflict > 0)


(***************************************************************************)
(* Properties of the event log                                             *)
(***************************************************************************)
isPrefix(old, new) == Len(old) <= Len(new) /\ SubSeq(new, 1, Len(old)) = old

notEarlier(later, earlier) ==
    \/ later.day > earlier.day
    \/ later.day = earlier.day /\ later.ms >= earlier.ms

\* the type of the event each of the three operations appends
eventTypeOf(op) ==
    CASE op = "applyJournalEntry" -> "journal"
      [] op = "applyDailyAnswer" -> "daily_answer"
      [] op = "applyAnswers" -> "answer"

\* a step of an operation on the entity; initWorld replaces the entity by the
\* stored one and is no operation on it
operatedOnEntity ==
    initialised /\ aurelia' # Null /\ ~(operated /\ last'.op = "initWorld")

appendsOne(op) ==
    /\ Len(aurelia'.memory) = Len(aurelia.memory) + 1
    /\ aurelia'.memory[Len(aurelia'.memory)].type = eventTypeOf(op)
    /\ notEarlier(aurelia'.meta.lastUpdatedAt, aurelia.meta.lastUpdatedAt)

RandomOutcomes == 0..(ONE - 1)

\* the events one evaluateReaction call appends to the entity, for an outcome
reactionEvents(chance) ==
    With(evaluateReaction(aurelia, chance, clock, nextId).memory, LAMBDA memory :
        { memory[k] : k \in (Len(aurelia.memory) + 1)..Len(memory) })

reacted(chance, variant) ==
    \E event \in reactionEvents(chance) :
        event.type = "reaction" /\ event.payload.type = variant

aboveNoticeAndMicro ==
    /\ initialised
    /\ pressureOf(aurelia) > aurelia.thresholds.notice
    /\ pressureOf(aurelia) > aurelia.thresholds.micro

\* C32: the gates of evaluateReaction are independent, not a single roll:
\* with the pressure above thresholds.notice and thresholds.micro, one call
\* can fire the micro reaction and not the notice reaction, and can fire the
\* notice reaction and not the micro reaction
C32_IndependentGates ==
    aboveNoticeAndMicro =>
        /\ \E chance \in RandomOutcomes : reacted(chance, "notice") /\ ~reacted(chance, "micro")
        /\ \E chance \in RandomOutcomes : reacted(chance, "micro") /\ ~reacted(chance, "notice")


\* an entity saved after twenty entries of fear and fight: its pressure is
\* above the baseline thresholds.major
StormVeteran == journalRun(FreshRun, Str("strach boj"), 20)
StormStore == saveLocal(EmptyStore, StormVeteran.state, "local")

MaxReactions == 4
ReactionStores == {EmptyStore, StormStore}

\* Math.random(): one value between each pair of neighbouring gates
ReactionChances == {F(2, 10), F(4, 10), F(6, 10), F(9, 10)}

ReactionInit ==
    /\ TextIdle
    /\ WorldInit
    /\ localStorage \in ReactionStores
    /\ budget = MaxReactions

ReactionNext ==
    \/ PageLoad
    \/ ApplyJournalEntry(Str("strach boj"))
    \/ \E chance \in ReactionChances : EvaluateReaction(chance)

SpecReaction == ReactionInit /\ [][ReactionNext]_vars

ascending(thresholds) ==
    thresholds.notice < thresholds.micro /\ thresholds.micro < thresholds.major

aboveMajor ==
    /\ initialised
    /\ ascending(aurelia.thresholds)
    /\ pressureOf(aurelia) > aurelia.thresholds.major

\* what a call that ends in a major shift does for the outcome
majorShift(chance) ==
    With(evaluateReaction(aurelia, chance, clock, nextId), LAMBDA after :
        /\ reactionResult(aurelia, chance) = "major"
        /\ after.laws.stability = aurelia.laws.stability - F(15, 100)
        /\ after.laws.permeability = aurelia.laws.permeability + F(15, 100)
        /\ after.laws.distortion = aurelia.laws.distortion + F(25, 100)
        /\ after.memory[Len(after.memory)].type = "major_shift")

\* C33: with ascending thresholds evaluateReaction can end in a major shift:
\* in a state with the pressure above thresholds.major there is an outcome of
\* Math.random() for which the call returns "major", perturbs the laws
\* (stability -0.15, permeability +0.15, distortion +0.25) and appends a
\* major_shift event
C33_MajorShiftReachable ==
    aboveMajor => \E chance \in RandomOutcomes : majorShift(chance)


(***************************************************************************)
(* Properties of the behaviour cases                                       *)
(***************************************************************************)
MaxCaseEntries == 5
NegatedCalm == Str("ne klid, ne bezpeci")
CaseTexts == {NegatedCalm, Str("klid bezpeci"), Str("nejsem v bezpeci")}
CaseStores == {EmptyStore, LegacyStore}

CaseInit ==
    /\ TextIdle
    /\ WorldInit
    /\ localStorage \in CaseStores
    /\ budget = MaxCaseEntries

CaseNext ==
    \/ PageLoad
    \/ \E txt \in CaseTexts : ApplyJournalEntry(txt)

SpecCases == CaseInit /\ [][CaseNext]_vars

\* every scalar the decay tracks is at its baseline
atBaseline(state) ==
    \A section \in {"presence", "innerState"} :
        \A scalar \in DOMAIN BASELINE[section] :
            state[section][scalar] = BASELINE[section][scalar]

\* C34: an entry made only of negated calm and safety words, "ne klid, ne
\* bezpeci", has negative sentiment and, applied to a state at baseline,
\* lowers innerState.trust, raises innerState.fear and lowers
\* innerState.stability
C34_NegatedCalmCase ==
    [][(journalled /\ last'.arg = NegatedCalm /\ atBaseline(aurelia)) =>
        /\ fixedSignals(last'.result).sentiment < 0
        /\ aurelia'.innerState.trust < aurelia.innerState.trust
        /\ aurelia'.innerState.fear > aurelia.innerState.fear
        /\ aurelia'.innerState.stability < aurelia.innerState.stability]_vars


(***************************************************************************)
(* Properties holding between the operations                               *)
(***************************************************************************)
\* C35: for an entity started fresh, in every state between operations
\* epochBuffer.count is in 0..6 and is the number of journal events in the
\* log modulo 7, and epochs has min(12, floor(journal events / 7)) records
C35_BufferCountsJournalEvents ==
    initialised =>
        With(Len(SelectSeq(aurelia.memory, isJournal)), LAMBDA entries :
            /\ aurelia.epochBuffer.count \in 0..(EPOCH_SIZE - 1)
            /\ aurelia.epochBuffer.count = entries % EPOCH_SIZE
            /\ Len(aurelia.epochs) = Min(MAX_EPOCHS, entries \div EPOCH_SIZE))

\* two entries after the 90 of the stored entity: the 13th closure is past,
\* 12 records stay and one entry is counted
C35_Witness ==
    /\ initialised
    /\ last.op = "applyJournalEntry"
    /\ Len(SelectSeq(aurelia.memory, isJournal)) = (MAX_EPOCHS + 1) * EPOCH_SIZE + 1
    /\ aurelia.epochBuffer.count = 1
    /\ Len(aurelia.epochs) = MAX_EPOCHS


trendBelowThreshold ==
    initialised => Abs(aurelia.daily.trend) < DAILY_IMPRINT_THRESHOLD

\* an answer whose step brings the trend to the threshold leaves it 0; no
\* other operation on the entity changes the trend
trendMovesByAnswerOnly ==
    operatedOnEntity =>
        IF called("applyDailyAnswer")
        THEN \/ aurelia'.daily.trend = 0
             \/ /\ Abs(aurelia'.daily.trend) < DAILY_IMPRINT_THRESHOLD
                /\ aurelia'.daily.imprint = aurelia.daily.imprint
        ELSE aurelia'.daily.trend = aurelia.daily.trend

\* C36: in every state between operations |daily.trend| < 0.8: an
\* applyDailyAnswer that brings |trend| to 0.8 or more resets it to 0 in the
\* same call, and no other operation changes daily.trend
C36_TrendBelowThreshold == []trendBelowThreshold /\ [][trendMovesByAnswerOnly]_vars

\* a falling trend has just been reset by the answer that reached -0.8
C36_Witness ==
    /\ initialised
    /\ last.op = "applyDailyAnswer"
    /\ last.arg.value = FALSE
    /\ aurelia.daily.trend = 0
    /\ aurelia.daily.imprint < 0
    /\ aurelia.daily.lastImprintAt = Stamp(clock)


\* C37: after every applyDailyAnswer no pending entry remains: dailyDraft is
\* null, daily.lastQuestionDate is today, needsDailyQuestion() is false and
\* dailyLogs has an entry for today, also when the draft was made on an
\* earlier date than the answer
C37_NoPendingEntryAfterAnswer ==
    [][(initialised /\ called("applyDailyAnswer") /\ ~last'.threw) =>
        /\ aurelia'.dailyDraft = Null
        /\ aurelia'.daily.lastQuestionDate = getLocalDateKey(clock)
        /\ ~needsDailyQuestion(aurelia', clock)
        /\ getLocalDateKey(clock).day \in DOMAIN aurelia'.dailyLogs]_vars


(***************************************************************************)
(* Properties of the users                                                 *)
(***************************************************************************)
MaxSwitches == 5
Users == {"local", "u1"}
UserStores == {EmptyStore, LegacyStore}

UsersInit ==
    /\ TextIdle
    /\ WorldInit
    /\ localStorage \in UserStores
    /\ budget = MaxSwitches

\* setActiveUser(userId) between the operations of the users
UsersNext ==
    \/ \E userId \in Users : InitWorld([userId |-> userId, planetSeed |-> ""])
    \/ ApplyJournalEntry(Str("strach boj"))
    \/ ApplyAnswers([truth |-> "truth", facing |-> "escape"])

SpecUsers == UsersInit /\ [][UsersNext]_vars

mutating == {"applyJournalEntry", "applyDailyAnswer", "setWeeklySummaryWeek", "applyAnswers"}

\* a mutating operation writes the entity under the active user's key only
writesOwnKeyOnly ==
    (initialised /\ operated /\ last'.op \in mutating /\ ~last'.threw) =>
        /\ aurelia'.meta.userId = activeUserId
        /\ buildKey(activeUserId) \in DOMAIN localStorage'
        /\ localStorage'[buildKey(activeUserId)] = JSON_stringify(aurelia')
        /\ \A key \in DOMAIN localStorage' \ {buildKey(activeUserId)} :
               key \in DOMAIN localStorage /\ localStorage'[key] = localStorage[key]

\* a user who has saved gets the saved state back, whoever was active between
loadsOwnState ==
    (operated /\ last'.op = "initWorld" /\ loadLocal(localStorage, activeUserId') # Null) =>
        /\ aurelia' = loadLocal(localStorage, activeUserId')
        /\ aurelia'.meta.userId = activeUserId'
        /\ localStorage' = localStorage

\* C38: per-user isolation of persistence: every mutating operation writes
\* the state only under the storage key of the user made active by the most
\* recent initWorld or setActiveUser, with meta.userId that user; the stored
\* blob of every other user is unchanged by it, and after switching users and
\* back the first user's state is the one that user last saved
C38_UsersIsolated == [][writesOwnKeyOnly /\ loadsOwnState]_vars

\* both users have saved, and the first is active again with what it saved
C38_Witness ==
    /\ initialised
    /\ last.op = "initWorld"
    /\ activeUserId = "u1"
    /\ loadLocal(localStorage, "u1") = aurelia
    /\ loadLocal(localStorage, "local") # Null
    /\ loadLocal(localStorage, "local").meta.userId = "local"
    /\ loadLocal(localStorage, "local").memory # aurelia.memory
    /\ Len(aurelia.memory) >= 1
    /\ Len(requests) >= 2


(***************************************************************************)
(* Properties of the sync payload over time                                *)
(***************************************************************************)
\* an operation on the entity has returned and has sent its request
sent == operated /\ initialised /\ ~last'.threw /\ Len(requests') = Len(requests) + 1

\* the payloads sent so far stay what they were
bodiesKept == \A i \in DOMAIN requests : requests'[i].body = requests[i].body

\* the payload describes the entity as the operation has left it
describesResult == sent => requests'[Len(requests')].body = buildSafeSnapshot(aurelia')

\* the last event of the payload was appended by the operation that sent it
lastEventIsOwn ==
    With(requests'[Len(requests')].body, LAMBDA body :
        /\ body.activity.event_count = Len(aurelia.memory) + 1
        /\ body.activity.last_event # Null
        /\ body.event_type = eventTypeOf(last'.op))

\* C39 as stated: the payload of each sync attempt is built inside the
\* operation that triggered it and describes the state as that operation left
\* it, its last event being that operation's event, whatever operations
\* follow before the request completes
C39_PayloadOfItsOperation ==
    [][bodiesKept /\ describesResult /\ (sent => lastEventIsOwn)]_vars

\* C39 amended: the payload of each sync attempt is built inside the
\* operation that triggered it and describes the state as that operation left
\* it, whatever operations follow before the request completes; its last
\* event is that operation's event for applyJournalEntry, applyDailyAnswer
\* and applyAnswers, while setWeeklySummaryWeek appends no event and its
\* payload carries the last event there was before it, if any
C39_PayloadBuiltInOperation ==
    [][/\ bodiesKept
       /\ describesResult
       /\ sent => IF last'.op = "setWeeklySummaryWeek"
                  THEN requests'[Len(requests')].body.activity.event_count = Len(aurelia.memory)
                  ELSE lastEventIsOwn]_vars

\* the request of the first operation has completed after a second operation
\* changed the entity; its payload still counts one event
C39_Witness ==
    /\ initialised
    /\ Len(requests) = 2
    /\ requests[1].state = "fulfilled"
    /\ requests[2].state = "pending"
    /\ requests[1].body.activity.event_count = 1
    /\ requests[1].body.event_type = "journal"
    /\ requests[2].body.event_type = "answer"
    /\ Len(aurelia.memory) = 2


(***************************************************************************)
(* The journal form of the page (main.js)                                  *)
(***************************************************************************)
RITUAL_DELAY_MS == 6000

\* the characters String.prototype.trim removes from both ends
Whitespace == {" ", "\t", "\n", "\r"}

RECURSIVE trimStart(_)
trimStart(chars) ==
    IF Len(chars) > 0 /\ chars[1] \in Whitespace
    THEN trimStart(SubSeq(chars, 2, Len(chars)))
    ELSE chars

RECURSIVE trimEnd(_)
trimEnd(chars) ==
    IF Len(chars) > 0 /\ chars[Len(chars)] \in Whitespace
    THEN trimEnd(SubSeq(chars, 1, Len(chars) - 1))
    ELSE chars

trim(str) == JsString(trimEnd(trimStart(str.chars)))

\* !text: the empty string is the only falsy string
isEmpty(str) == Len(str.chars) = 0

setRitualState(pg, active) ==
    [pg EXCEPT !.journalInput.disabled = active, !.submitBtn.disabled = active]

\* the page has the daily panel
showDailyQuestion(pg, show) ==
    LET shown == [pg EXCEPT !.dailyPanel.hidden = ~show]
    IN  IF show THEN setRitualState(shown, TRUE) ELSE shown

\* if (ritualTimer): a timeout handle is a positive integer
ritualPending(pg) == pg.ritualTimer # Null

\* window.setTimeout(callback, RITUAL_DELAY_MS) with the text in the closure
setTimeout(pg, txt) ==
    LET handle == pg.handles + 1
    IN  [pg EXCEPT !.ritualTimer = [value |-> handle],
                   !.handles = handle,
                   !.timeouts = @ \cup {[handle |-> handle, text |-> txt,
                                         delay |-> RITUAL_DELAY_MS]}]

\* the click listener of submitBtn
submitClicked(pg) ==
    IF ritualPending(pg) THEN pg
    ELSE LET txt == trim(pg.journalInput.value)
         IN  IF isEmpty(txt) THEN pg
             ELSE setTimeout(
                      setRitualState([pg EXCEPT !.journalInput.value = Str("")], TRUE),
                      txt)

\* getWeekKey: the ISO week of the day; the days count from a Monday, the
\* first of week 1
getWeekKey(now) == [week |-> (now.day - 1) \div 7 + 1]

\* maybeShowWeeklySummary up to its call of setWeeklySummaryWeek: the week
\* has no summary yet and seven days are logged
summaryDue(state, now) ==
    /\ state.daily.lastSummaryWeek # getWeekKey(now)
    /\ Cardinality(DOMAIN state.dailyLogs) >= 7

\* world.js as a handler finds it
moduleNow ==
    [aurelia |-> aurelia, localStorage |-> localStorage, requests |-> requests,
     nextId |-> nextId, last |-> last]

\* an operation of world.js called from a handler: the entity it wrote, the
\* ids it drew, then persist()
handlerCall(w, state, ids, op, arg, result) ==
    LET saved == [state EXCEPT !.meta.userId = activeUserId]
    IN  IF persistThrows
        THEN [w EXCEPT !.aurelia = saved, !.nextId = @ + ids, !.last = Threw(op, arg)]
        ELSE [aurelia |-> saved,
              localStorage |-> saveLocal(w.localStorage, saved, activeUserId),
              requests |-> Append(w.requests, syncToCloud(saved)),
              nextId |-> w.nextId + ids,
              last |-> Returned(op, arg, result)]

maybeShowWeeklySummary(w, now) ==
    IF summaryDue(w.aurelia, now)
    THEN handlerCall(w, setWeeklySummaryWeek(w.aurelia, getWeekKey(now)), 0,
                "setWeeklySummaryWeek", getWeekKey(now), Null)
    ELSE w

\* world.js as the handler leaves it
becomes(w) ==
    /\ aurelia' = w.aurelia
    /\ localStorage' = w.localStorage
    /\ requests' = w.requests
    /\ nextId' = w.nextId
    /\ last' = w.last

\* the user types into the journal input; a disabled input takes no typing
Type(value) ==
    /\ aurelia # Null
    /\ ~page.journalInput.disabled
    /\ page' = [page EXCEPT !.journalInput.value = value]
    /\ UNCHANGED <<aurelia, activeUserId, localStorage, requests, clock, nextId, last,
                   budget, textVars, rand, quotaExceeded>>

\* a click event reaches the listener of submitBtn
SubmitClick ==
    /\ aurelia # Null
    /\ budget > 0
    /\ budget' = budget - 1
    /\ page' = submitClicked(page)
    /\ UNCHANGED <<aurelia, activeUserId, localStorage, requests, clock, nextId, last,
                   textVars, rand, quotaExceeded>>

\* the delay of a timeout has passed and its callback runs; an exception
\* of applyJournalEntry ends the callback
TimerFires(timeout) ==
    /\ timeout \in page.timeouts
    /\ budget > 0
    /\ budget' = budget - 1
    /\ clock' = [clock EXCEPT !.ms = @ + timeout.delay]
    /\ LET now == [clock EXCEPT !.ms = @ + timeout.delay]
           fired == [page EXCEPT !.timeouts = @ \ {timeout}]
           applied == handlerCall(moduleNow,
                             applyJournalEntry(aurelia, timeout.text, now, nextId),
                             journalIds(aurelia), "applyJournalEntry", timeout.text,
                             analyzeText(timeout.text))
           freed == [fired EXCEPT !.ritualTimer = Null]
       IN  IF applied.last.threw
           THEN becomes(applied) /\ page' = fired
           ELSE IF needsDailyQuestion(applied.aurelia, now)
           THEN becomes(applied) /\ page' = showDailyQuestion(freed, TRUE)
           ELSE /\ becomes(maybeShowWeeklySummary(applied, now))
                /\ page' = setRitualState(freed, FALSE)
    /\ UNCHANGED <<activeUserId, textVars, rand, quotaExceeded>>

\* handleDailyAnswer: a click on dailyYes or dailyNo, which a hidden panel
\* does not offer; an exception of applyDailyAnswer ends the handler
DailyClick(isPositive) ==
    /\ aurelia # Null
    /\ ~page.dailyPanel.hidden
    /\ budget > 0
    /\ budget' = budget - 1
    /\ LET replied == handlerCall(moduleNow,
                              applyDailyAnswer(aurelia, isPositive, clock, nextId), 1,
                              "applyDailyAnswer", [value |-> isPositive], Null)
       IN  IF replied.last.threw
           THEN becomes(replied) /\ UNCHANGED page
           ELSE /\ becomes(maybeShowWeeklySummary(replied, clock))
                /\ page' = setRitualState(showDailyQuestion(page, FALSE), FALSE)
    /\ UNCHANGED <<activeUserId, clock, textVars, rand, quotaExceeded>>

(***************************************************************************)
(* Properties of the submit flow                                           *)
(***************************************************************************)
MaxSubmit == 6

\* the session starts in the second week; the ritual was replied on each
\* day of the first
SubmitStart == noonOf(9)
WeekVeteran == dayRun(FreshRun, 1, 7)
WeekStore == saveLocal(EmptyStore, WeekVeteran.state, "local")
SubmitStores == {EmptyStore, WeekStore}
SubmitTexts == {Str(""), Str("  "), Str(" strach boj "), Str("klid bezpeci")}

SubmitInit ==
    /\ TextIdle
    /\ aurelia = Null
    /\ activeUserId = "local"
    /\ requests = <<>>
    /\ quotaExceeded = FALSE
    /\ page = PageIdle
    /\ rand = Null
    /\ clock = SubmitStart
    /\ nextId = Max(FirstId, WeekVeteran.id)
    /\ last = NoCall
    /\ localStorage \in SubmitStores
    /\ budget = MaxSubmit

SubmitNext ==
    \/ PageLoad
    \/ \E value \in SubmitTexts : Type(value)
    \/ SubmitClick
    \/ \E timeout \in page.timeouts : TimerFires(timeout)
    \/ \E isPositive \in BOOLEAN : DailyClick(isPositive)
    \/ DayPasses
    \/ QuotaChanges

SpecSubmit == SubmitInit /\ [][SubmitNext]_vars


atMostOneTimer == Cardinality(page.timeouts) <= 1

journalEvents(state) == SelectSeq(state.memory, isJournal)

\* a click the listener takes: no timer pending and text left after trimming
accepts(pg) == ~ritualPending(pg) /\ ~isEmpty(trim(pg.journalInput.value))

worldKept == UNCHANGED <<aurelia, localStorage, requests, nextId, last>>

ignoredClicks == (SubmitClick /\ ~accepts(page)) => (page' = page /\ worldKept)

\* an accepted click sets the one timeout, of six seconds, with the trimmed text
acceptedClicks ==
    (SubmitClick /\ accepts(page)) =>
        /\ worldKept
        /\ page.timeouts = {}
        /\ \E timeout \in page'.timeouts :
              /\ page'.timeouts = {timeout}
              /\ page'.ritualTimer = [value |-> timeout.handle]
              /\ timeout.text = trim(page.journalInput.value)
              /\ timeout.delay = 6000

fires(timeout) == timeout \in page.timeouts /\ timeout \notin page'.timeouts

\* the callback hands the text to applyJournalEntry once, six seconds or
\* more after the click, and leaves ritualTimer null
firedOnce(timeout) ==
    /\ Len(journalEvents(aurelia')) = Len(journalEvents(aurelia)) + 1
    /\ LET entry == journalEvents(aurelia')[Len(journalEvents(aurelia'))]
       IN  entry.payload.text = timeout.text /\ entry.timestamp = clock'
    /\ clock'.day = clock.day /\ clock'.ms = clock.ms + 6000
    /\ page'.ritualTimer = Null
    /\ page'.timeouts = {}

\* applyJournalEntry is called by the callback of a timeout and by nothing else
entriesByTimerOnly ==
    (initialised /\ aurelia' # Null /\ journalEvents(aurelia') # journalEvents(aurelia))
        => \E timeout \in page.timeouts : fires(timeout)

dailyAnswered ==
    /\ initialised
    /\ aurelia' # Null
    /\ Len(aurelia'.memory) > Len(aurelia.memory)
    /\ aurelia'.memory[Len(aurelia'.memory)].type = "daily_answer"

\* C40: in the submit flow at most one ritual timer is pending at any time: a
\* submit click while a timer is pending, or with empty trimmed text, changes
\* nothing; an accepted click sets one timeout of 6 seconds holding the
\* trimmed text; when the timeout fires applyJournalEntry is called exactly
\* once, with that text, after which ritualTimer is null again; no journal
\* entry is applied by anything but a timeout, and no daily answer is applied
\* while a timeout is pending.
C40_OneRitualTimer ==
    /\ []atMostOneTimer
    /\ [][/\ ignoredClicks
          /\ acceptedClicks
          /\ \A timeout \in page.timeouts : fires(timeout) => firedOnce(timeout)
          /\ entriesByTimerOnly
          /\ dailyAnswered => page.timeouts = {}]_vars
====
